---------------------------- MODULE Spec2Model ----------------------------
(***************************************************************************)
(* A model of the signal backtesting engine of TradeSageSignal:            *)
(* backtester.run_backtest, with the parts of signal_generator it calls    *)
(* (generate_signals, create_signal, filter_conflicting_signals).          *)
(*                                                                         *)
(* Units.  Prices are integers in ticks of 1/100 of the quote currency, so *)
(* 100.00 is 10000.  The numeric options of the configuration              *)
(* (atr_multiplier, tp1_factor, tp2_factor) are integers in tenths, so 1.5 *)
(* is 15.  Timestamps are integers in milliseconds, the unit of the        *)
(* exchange data; a formatted timestamp ('%Y-%m-%d %H:%M:%S') is the       *)
(* number of whole seconds.  profit_loss is an exact rational [n, d] in    *)
(* lowest terms with d > 0.  Python's None is the empty sequence and a     *)
(* value v that may be None is <<v>>.  Indices are the code's 0-based      *)
(* positions; Row(d, i) is d.iloc[i].                                      *)
(*                                                                         *)
(* Specifications.  Spec is one call of run_backtest.  SpecPair replays    *)
(* two series that agree on a prefix.  SpecStats is the statistics step on *)
(* collections of terminal signals.  SpecTwice is run_backtest called      *)
(* twice on the same input.  SpecFilter is filter_conflicting_signals on   *)
(* lists of signals; there result holds the list it returns.               *)
(***************************************************************************)
EXTENDS Integers, Sequences, FiniteSets, TLC

VARIABLES
    market,      \* the annotated series the collaborators yield (world)
    config,      \* the caller's configuration mapping
    pc,          \* position in run_backtest
    df,          \* local: the bar series (fetched, then annotated)
    i,           \* local: the replay loop's index
    k,           \* local: the simulation loop's index into signals
    signals,     \* local: the collected signals
    result,      \* the value returned (None until a result record is returned)
    error,       \* the exception raised inside the run, "" if none
    escaped,     \* TRUE iff an exception left run_backtest
    db_rows,     \* rows this run added to the signals table
    df2,         \* second run (no-look-ahead pair): its annotated series
    signals2,    \* second run: its collected signals
    cut,         \* second run: the last index on which the two series agree
    env,         \* what the run reads of the machine: [now, seed]
    earlier,     \* the outcome of an earlier run on the same input, if any
    fetched,     \* the frame fetch_historical_data returned, as it is now
    feed,        \* what each exchange yields for the request (world)
    request,     \* fetch_historical_data's arguments: [exchange_id, fallback]
    attempts     \* the calls of fetch_historical_data made so far, in order

vars == <<market, config, pc, df, i, k, signals, result, error, escaped,
          db_rows, df2, signals2, cut, env, earlier, fetched,
          feed, request, attempts>>

\* ------------------------------------------------------------------ bounds

\* Longest bar series fetched.
MaxBars == 4

\* Longest bar series fetched with an index that is not at whole seconds
\* or not unique, or with a candle that closes at zero.
MaxOddBars == 3

\* Longest first series of a pair of runs.
MaxPairBars == 3

\* Milliseconds per second: the exchange index is in ms, the tag in seconds.
MsPerSec == 1000

\* ----------------------------------------------------------------- helpers

None == <<>>
Some(x) == <<x>>

Abs(x) == IF x < 0 THEN -x ELSE x

RECURSIVE GCD(_, _)
GCD(a, b) == IF b = 0 THEN a ELSE GCD(b, a % b)

\* The rational n/d (d > 0) in lowest terms.
Rat(n, d) ==
    LET g == GCD(Abs(n), d)
    IN  [n |-> n \div g, d |-> d \div g]

\* A float is such a rational, or one of the values IEEE arithmetic adds:
\* infinity, minus infinity and nan, written with denominator 0 and
\* numerator 1, -1 and 0.
Finite(a) == a.d > 0
NaN == [n |-> 0, d |-> 0]
IsNaN(a) == a.d = 0 /\ a.n = 0
Sign(x) == IF x > 0 THEN 1 ELSE IF x < 0 THEN -1 ELSE 0
Inf(sign) == [n |-> sign, d |-> 0]

\* Arithmetic and order of floats (Python's and numpy's operators, taken
\* exactly on the rationals).  Common factors are divided out before
\* multiplying, to keep the intermediate integers small.
Whole(x) == [n |-> x, d |-> 1]
Plus(a, b) ==
    IF Finite(a) /\ Finite(b)
    THEN LET g == GCD(a.d, b.d)
         IN  Rat(a.n * (b.d \div g) + b.n * (a.d \div g), (a.d \div g) * b.d)
    ELSE IF IsNaN(a) \/ IsNaN(b) THEN NaN
    ELSE IF ~Finite(a) /\ ~Finite(b) /\ a.n # b.n THEN NaN
    ELSE IF ~Finite(a) THEN a ELSE b
Minus(a, b) == Plus(a, [n |-> -b.n, d |-> b.d])
Times(a, b) ==
    IF Finite(a) /\ Finite(b)
    THEN LET g1 == GCD(Abs(a.n), b.d)
             g2 == GCD(Abs(b.n), a.d)
         IN  Rat((a.n \div g1) * (b.n \div g2), (a.d \div g2) * (b.d \div g1))
    ELSE IF Sign(a.n) * Sign(b.n) = 0 THEN NaN
    ELSE Inf(Sign(a.n) * Sign(b.n))
\* a / b for b # 0.
Over(a, b) ==
    IF Finite(a) /\ Finite(b)
    THEN Times(a, IF b.n > 0 THEN [n |-> b.d, d |-> b.n]
                  ELSE [n |-> -b.d, d |-> -b.n])
    ELSE IF IsNaN(a) \/ IsNaN(b) \/ (~Finite(a) /\ ~Finite(b)) THEN NaN
    ELSE IF Finite(a) THEN Whole(0)
    ELSE Inf(Sign(a.n) * Sign(b.n))
\* a < b, which is false when either is nan.
Less(a, b) ==
    IF Finite(a) /\ Finite(b)
    THEN LET g == GCD(a.d, b.d)
         IN  a.n * (b.d \div g) < b.n * (a.d \div g)
    ELSE IF IsNaN(a) \/ IsNaN(b) THEN FALSE
    ELSE (IF Finite(a) THEN 0 ELSE a.n) < (IF Finite(b) THEN 0 ELSE b.n)
AbsRat(a) == [n |-> Abs(a.n), d |-> a.d]

\* x > 0 and x <= 0; both are false of nan.
Positive(a) == a.n > 0
NotPositive(a) == a.n < 0 \/ (a.n = 0 /\ Finite(a))

\* sum(list), from the left, starting at 0.
RECURSIVE Sum(_)
Sum(rs) == IF rs = <<>> THEN Whole(0) ELSE Plus(Sum(SubSeq(rs, 1, Len(rs) - 1)), rs[Len(rs)])

Row(d, idx) == d[idx + 1]

Last(s) == s[Len(s)]

RECURSIVE Concat(_)
Concat(ss) == IF ss = <<>> THEN <<>> ELSE Head(ss) \o Concat(Tail(ss))

\* ---------------------------------------------------------- data_fetcher.py

\* fallback_exchanges of fetch_historical_data_from_fallback.
FallbackExchanges ==
    <<"kraken", "coinbase", "kucoin", "bitfinex", "huobi", "okex">>

\* Remaining that tries the whole list, the failed exchange included.
RemainingKeepsAll(excluded_exchanges) == FallbackExchanges

\* The fallback list without the excluded exchanges, in list order.
Remaining(excluded_exchanges) ==
    SelectSeq(FallbackExchanges, LAMBDA ex : ex \notin excluded_exchanges)

\* What one exchange does with the request: it returns candles ("data"),
\* it cannot be initialised or returns no candle ("empty"), or a call on it
\* raises ("error").  fetch_historical_data gets a frame in the first case
\* only.
Yields == {"data", "empty", "error"}

\* The frame built from the candles of an exchange.
FrameOf(exchange_id) == Some([exchange |-> exchange_id])

\* ------------------------------------------------------ signal_generator.py

\* A column of the most recent candle: TRUE iff the annotator set the flag.
Col(row, name) == name \in row.flags

\* create_signal's stop loss: ATR-based when the configuration carries an
\* 'atr' value, else 3% from entry.
StopLoss(signal_type, entry_price, cfg) ==
    IF cfg.use_atr /\ cfg.has_atr
    THEN IF signal_type = "LONG"
         THEN entry_price - (cfg.atr * cfg.atr_multiplier) \div 10
         ELSE entry_price + (cfg.atr * cfg.atr_multiplier) \div 10
    ELSE IF signal_type = "LONG"
         THEN (entry_price * 97) \div 100
         ELSE (entry_price * 103) \div 100

\* What a run reads of the machine it runs on: the wall clock
\* (datetime.now(), formatted to whole seconds) and the seed of the random
\* uuid4 values.  One reading falls inside the period of the series
\* explored, the other a day after its start.
EarlyEnv == [now |-> 70, seed |-> "a"]
LaterEnv == [now |-> 86400, seed |-> "b"]
Envs == {EarlyEnv, LaterEnv}

\* create_signal: the signal record for one candidate, stamped with the
\* wall clock.  Its id is set by WithIds below, where the position of the
\* call in the run is known.  The exit fields and
\* the anchor tag are added by run_backtest; here they are None.  Three
\* fields record locals of run_backtest for the properties below: anchor
\* (the replay index i), future_from (entry_idx + 1) and exit_idx (the
\* position of the bar on which the simulation loop broke, or of the last
\* bar when it ran to the end).
create_signal(symbol, signal_type, strategy, entry_price, cfg) ==
    LET stop_loss == StopLoss(signal_type, entry_price, cfg)
        risk == IF signal_type = "LONG" THEN entry_price - stop_loss
                ELSE stop_loss - entry_price
        target1 == IF signal_type = "LONG"
                   THEN entry_price + (risk * cfg.tp1_factor) \div 10
                   ELSE entry_price - (risk * cfg.tp1_factor) \div 10
        target2 == IF signal_type = "LONG"
                   THEN entry_price + (risk * cfg.tp2_factor) \div 10
                   ELSE entry_price - (risk * cfg.tp2_factor) \div 10
    IN  [id |-> None,
         timestamp |-> Some(env.now),
         symbol |-> symbol,
         signal_type |-> signal_type,
         strategy |-> strategy,
         entry_price |-> entry_price,
         stop_loss |-> stop_loss,
         target1 |-> target1,
         target2 |-> target2,
         risk_reward_ratio1 |-> cfg.tp1_factor,
         risk_reward_ratio2 |-> cfg.tp2_factor,
         exit_price |-> None,
         exit_time |-> None,
         profit_loss |-> None,
         exit_reason |-> None,
         anchor |-> None,
         future_from |-> None,
         exit_idx |-> None]

\* One if/elif pair of generate_signals: the bullish test first, the bearish
\* one only when the bullish one fails.
Candidate(enabled, bull, bear, bullName, bearName, row, cfg) ==
    IF ~enabled THEN <<>>
    ELSE IF bull
         THEN <<create_signal(cfg.symbol, "LONG", bullName, row.close, cfg)>>
         ELSE IF bear
              THEN <<create_signal(cfg.symbol, "SHORT", bearName, row.close, cfg)>>
              ELSE <<>>

\* The moving-average chain: golden cross, death cross, short-term bull,
\* short-term bear, the first that holds.
MovingAverageCandidate(row, cfg) ==
    IF Col(row, "golden_cross")
    THEN <<create_signal(cfg.symbol, "LONG", "Golden Cross (50 MA > 200 MA)", row.close, cfg)>>
    ELSE IF Col(row, "death_cross")
    THEN <<create_signal(cfg.symbol, "SHORT", "Death Cross (50 MA < 200 MA)", row.close, cfg)>>
    ELSE IF Col(row, "short_term_bull")
    THEN <<create_signal(cfg.symbol, "LONG", "Short-term Bullish Momentum (20 MA > 50 MA)", row.close, cfg)>>
    ELSE IF Col(row, "short_term_bear")
    THEN <<create_signal(cfg.symbol, "SHORT", "Short-term Bearish Momentum (20 MA < 50 MA)", row.close, cfg)>>
    ELSE <<>>

\* str(uuid.uuid4()) of create_signal: a value of the run's random stream,
\* one per call, the call being told by the frame it is made for and its
\* place among the candidates of that frame.
WithIds(frame, candidates) ==
    [n \in 1..Len(candidates) |->
        [candidates[n] EXCEPT !.id = Some(<<env.seed, Len(frame), n>>)]]

\* The candle generate_signals reads: the most recent one of the frame it
\* is given.
RecentRow(frame) == Last(frame)

\* generate_signals: the candidates for the most recent candle of frame, in
\* the order the strategies are tried.
generate_signals(frame, cfg) ==
    LET row == RecentRow(frame)
    IN  WithIds(frame,
        Candidate(cfg.use_macd,
                  Col(row, "macd_cross_up"), Col(row, "macd_cross_down"),
                  "MACD Bullish Crossover", "MACD Bearish Crossover", row, cfg)
        \o Candidate(cfg.use_rsi,
                  Col(row, "rsi_oversold") /\ Col(row, "bullish_divergence"),
                  Col(row, "rsi_overbought") /\ Col(row, "bearish_divergence"),
                  "RSI Oversold with Bullish Divergence",
                  "RSI Overbought with Bearish Divergence", row, cfg)
        \o Candidate(cfg.use_candlestick_patterns,
                  Col(row, "bullish_candlestick") /\ Col(row, "uptrend"),
                  Col(row, "bearish_candlestick") /\ Col(row, "downtrend"),
                  "Bullish Candlestick Pattern in Uptrend",
                  "Bearish Candlestick Pattern in Downtrend", row, cfg)
        \o Candidate(cfg.use_harmonic_patterns,
                  Col(row, "bullish_harmonic"), Col(row, "bearish_harmonic"),
                  "Bullish Harmonic Pattern", "Bearish Harmonic Pattern", row, cfg)
        \o Candidate(cfg.use_price_action,
                  Col(row, "bullish_price_action"), Col(row, "bearish_price_action"),
                  "Bullish Price Action Pattern", "Bearish Price Action Pattern", row, cfg)
        \o MovingAverageCandidate(row, cfg))

\* The symbols of a list of signals, in order of first appearance.
RECURSIVE SymbolsOf(_, _)
SymbolsOf(sigs, seen) ==
    IF sigs = <<>> THEN <<>>
    ELSE IF Head(sigs).symbol \in seen THEN SymbolsOf(Tail(sigs), seen)
         ELSE <<Head(sigs).symbol>> \o SymbolsOf(Tail(sigs), seen \cup {Head(sigs).symbol})

OfType(sigs, t) == SelectSeq(sigs, LAMBDA s : s.signal_type = t)

\* Strongest that keeps the latest among signals of equal ratio.
RECURSIVE StrongestLatest(_)
StrongestLatest(sigs) ==
    IF Len(sigs) = 1 THEN sigs[1]
    ELSE LET rest == StrongestLatest(Tail(sigs))
         IN  IF Head(sigs).risk_reward_ratio2 > rest.risk_reward_ratio2
             THEN Head(sigs) ELSE rest

\* sorted(symbol_signals, key=risk_reward_ratio2, reverse=True)[0]: a signal
\* of maximal ratio, the earliest among equals (the sort is stable).
RECURSIVE Strongest(_)
Strongest(sigs) ==
    IF Len(sigs) = 1 THEN sigs[1]
    ELSE LET rest == Strongest(Tail(sigs))
         IN  IF Head(sigs).risk_reward_ratio2 >= rest.risk_reward_ratio2
             THEN Head(sigs) ELSE rest

\* ResolveSymbol that keeps both sides when neither is in the majority.
ResolveSymbolTieKeepsAll(symbol_signals) ==
    LET long_signals == OfType(symbol_signals, "LONG")
        short_signals == OfType(symbol_signals, "SHORT")
    IN  IF Len(symbol_signals) > 1 /\ long_signals # <<>> /\ short_signals # <<>>
        THEN IF Len(long_signals) > Len(short_signals) THEN long_signals
             ELSE IF Len(short_signals) > Len(long_signals) THEN short_signals
             ELSE symbol_signals
        ELSE symbol_signals

\* What filter_conflicting_signals keeps of one symbol's signals.
ResolveSymbol(symbol_signals) ==
    LET long_signals == OfType(symbol_signals, "LONG")
        short_signals == OfType(symbol_signals, "SHORT")
    IN  IF Len(symbol_signals) > 1 /\ long_signals # <<>> /\ short_signals # <<>>
        THEN IF Len(long_signals) > Len(short_signals) THEN long_signals
             ELSE IF Len(short_signals) > Len(long_signals) THEN short_signals
             ELSE <<Strongest(symbol_signals)>>
        ELSE symbol_signals

filter_conflicting_signals(sigs) ==
    LET symbols == SymbolsOf(sigs, {})
        group(sym) == SelectSeq(sigs, LAMBDA s : s.symbol = sym)
    IN  Concat([n \in 1..Len(symbols) |-> ResolveSymbol(group(symbols[n]))])

\* ------------------------------------------------------------ backtester.py

\* df.index[i].strftime('%Y-%m-%d %H:%M:%S'): the timestamp cut to whole
\* seconds.
Strftime(ts) == ts \div MsPerSec

\* pd.to_datetime of a formatted timestamp.
ToDatetime(str) == str * MsPerSec

Index(d) == [n \in 1..Len(d) |-> d[n].ts]

IsUnique(index) ==
    \A a, b \in 1..Len(index) : index[a] = index[b] => a = b

\* df.index.get_indexer([t], method='nearest')[0] on a unique increasing
\* index: the position of the nearest label, the larger position on a tie.
GetIndexerNearest(index, t) ==
    LET n == Len(index)
        pad == IF \E a \in 1..n : index[a] <= t
               THEN CHOOSE a \in 1..n :
                        index[a] <= t /\ \A b \in 1..n : index[b] <= t => b <= a
               ELSE 0
        backfill == IF \E a \in 1..n : index[a] >= t
                    THEN CHOOSE a \in 1..n :
                        index[a] >= t /\ \A b \in 1..n : index[b] >= t => b >= a
                    ELSE 0
    IN  IF backfill = 0 THEN pad - 1
        ELSE IF pad = 0 THEN backfill - 1
        ELSE IF t - index[pad] < index[backfill] - t THEN pad - 1
        ELSE backfill - 1

\* The except branch: the first label at minimal distance, then
\* df.index.get_loc of it, which is a position only when the label is unique
\* (a slice otherwise, and entry_idx+1 raises).
ClosestLoc(index, t) ==
    LET n == Len(index)
        first == CHOOSE a \in 1..n :
                    /\ \A b \in 1..n : Abs(index[a] - t) <= Abs(index[b] - t)
                    /\ \A b \in 1..(a - 1) : Abs(index[b] - t) > Abs(index[a] - t)
    IN  IF Cardinality({b \in 1..n : index[b] = index[first]}) = 1
        THEN Some(first - 1) ELSE None

\* entry_idx for a signal's tag, or None when both lookups fail.
EntryIdx(d, timestamp) ==
    LET entry_time == ToDatetime(timestamp)
    IN  IF IsUnique(Index(d))
        THEN Some(GetIndexerNearest(Index(d), entry_time))
        ELSE ClosestLoc(Index(d), entry_time)

\* FutureStart with the entry bar included: df.iloc[entry_idx:].
FutureStartAtEntry(entry_idx) == entry_idx

\* The first position from which future_data starts: df.iloc[entry_idx+1:].
FutureStart(entry_idx) == entry_idx + 1

\* ProfitLoss with LONG's formula for both directions.
ProfitLossLongOnly(signal_type, exit_price, entry_price) ==
    IF entry_price = 0 THEN None
    ELSE Some(Rat((exit_price - entry_price) * 100, entry_price))

\* ProfitLoss that reports the size of the move without its sign.
ProfitLossAbsolute(signal_type, exit_price, entry_price) ==
    IF entry_price = 0 THEN None
    ELSE Some(Rat(Abs(exit_price - entry_price) * 100, entry_price))

\* (exit - entry) / entry * 100 for LONG, (entry - exit) / entry * 100 for
\* SHORT; None stands for the division by a zero entry price.
ProfitLoss(signal_type, exit_price, entry_price) ==
    IF entry_price = 0 THEN None
    ELSE IF signal_type = "LONG"
         THEN Some(Rat((exit_price - entry_price) * 100, entry_price))
         ELSE Some(Rat((entry_price - exit_price) * 100, entry_price))

\* The exit conditions on one bar, in the order the loop body tests them.
StopHit(sig, row) ==
    \/ sig.signal_type = "LONG" /\ row.low <= sig.stop_loss
    \/ sig.signal_type = "SHORT" /\ row.high >= sig.stop_loss

Target1Hit(sig, row) ==
    \/ sig.signal_type = "LONG" /\ row.high >= sig.target1
    \/ sig.signal_type = "SHORT" /\ row.low <= sig.target1

Target2Hit(sig, row) ==
    \/ sig.signal_type = "LONG" /\ row.high >= sig.target2
    \/ sig.signal_type = "SHORT" /\ row.low <= sig.target2

\* BarExit with the targets tested before the stop.
BarExitTargetsFirst(sig, row) ==
    IF Target1Hit(sig, row) THEN Some([price |-> sig.target1, reason |-> "Target 1"])
    ELSE IF Target2Hit(sig, row) THEN Some([price |-> sig.target2, reason |-> "Target 2"])
    ELSE IF StopHit(sig, row) THEN Some([price |-> sig.stop_loss, reason |-> "Stop Loss"])
    ELSE None

\* BarExit with the second target tested before the first.
BarExitFarTargetFirst(sig, row) ==
    IF StopHit(sig, row) THEN Some([price |-> sig.stop_loss, reason |-> "Stop Loss"])
    ELSE IF Target2Hit(sig, row) THEN Some([price |-> sig.target2, reason |-> "Target 2"])
    ELSE IF Target1Hit(sig, row) THEN Some([price |-> sig.target1, reason |-> "Target 1"])
    ELSE None

\* The loop body on one bar: the exit it records, or None to go on.
BarExit(sig, row) ==
    IF StopHit(sig, row) THEN Some([price |-> sig.stop_loss, reason |-> "Stop Loss"])
    ELSE IF Target1Hit(sig, row) THEN Some([price |-> sig.target1, reason |-> "Target 1"])
    ELSE IF Target2Hit(sig, row) THEN Some([price |-> sig.target2, reason |-> "Target 2"])
    ELSE None

\* Scan without the break: the last bar that meets a condition wins.
RECURSIVE ScanLast(_, _, _)
ScanLast(sig, d, j) ==
    IF j > Len(d) - 1 THEN None
    ELSE LET later == ScanLast(sig, d, j + 1)
         IN  IF later # None THEN later
             ELSE IF BarExit(sig, Row(d, j)) # None THEN Some(j)
                  ELSE None

\* for idx, row in future_data.iterrows(): the position of the bar on which
\* the loop breaks, scanning from position j; None when it runs to the end.
RECURSIVE Scan(_, _, _)
Scan(sig, d, j) ==
    IF j > Len(d) - 1 THEN None
    ELSE IF BarExit(sig, Row(d, j)) # None THEN Some(j)
         ELSE Scan(sig, d, j + 1)

\* EmptyFutureOutcome that books the untested signal as stopped out.
EmptyFutureStopped(sig) ==
    [exit_price |-> Some(sig.stop_loss),
     exit_time |-> Some(Strftime(ToDatetime(sig.timestamp[1]))),
     profit_loss |-> ProfitLoss(sig.signal_type, sig.stop_loss, sig.entry_price),
     exit_reason |-> Some("Stop Loss"),
     exit_idx |-> None,
     raised |-> ""]

\* The exit fields when future_data is empty.
EmptyFutureOutcome(sig) ==
    [exit_price |-> Some(sig.entry_price),
     exit_time |-> Some(Strftime(ToDatetime(sig.timestamp[1]))),
     profit_loss |-> Some(Rat(0, 1)),
     exit_reason |-> Some("End of data"),
     exit_idx |-> None,
     raised |-> ""]

\* LevelOutcome with the exit filled at the bar's extreme (its low for a
\* level reached from above, its high for one reached from below).
LevelOutcomeAtExtreme(sig, d, j) ==
    LET hit == BarExit(sig, Row(d, j))[1]
        fill == IF (sig.signal_type = "LONG") = (hit.reason = "Stop Loss")
                THEN Row(d, j).low ELSE Row(d, j).high
        pl == ProfitLoss(sig.signal_type, fill, sig.entry_price)
    IN  [exit_price |-> Some(fill),
         exit_time |-> Some(Strftime(Row(d, j).ts)),
         profit_loss |-> pl,
         exit_reason |-> Some(hit.reason),
         exit_idx |-> Some(j),
         raised |-> IF pl = None THEN "ZeroDivisionError" ELSE ""]

\* The exit fields when the loop broke on the bar at position j.  Exit and
\* entry price are Python floats of the signal, so a zero entry price raises
\* ZeroDivisionError.
LevelOutcome(sig, d, j) ==
    LET hit == BarExit(sig, Row(d, j))[1]
        pl == ProfitLoss(sig.signal_type, hit.price, sig.entry_price)
    IN  [exit_price |-> Some(hit.price),
         exit_time |-> Some(Strftime(Row(d, j).ts)),
         profit_loss |-> pl,
         exit_reason |-> Some(hit.reason),
         exit_idx |-> Some(j),
         raised |-> IF pl = None THEN "ZeroDivisionError" ELSE ""]

\* EndOfDataOutcome that closes the open trade flat at its entry price.
EndOfDataFlat(sig, d) ==
    [exit_price |-> Some(sig.entry_price),
     exit_time |-> Some(Strftime(Row(d, Len(d) - 1).ts)),
     profit_loss |-> Some(Rat(0, 1)),
     exit_reason |-> Some("End of data"),
     exit_idx |-> Some(Len(d) - 1),
     raised |-> ""]

\* A numpy float divided by zero: inf, -inf or nan by the sign of the
\* numerator, written as a ratio of denominator 0.
NumpyDivideByZero(numerator) ==
    [n |-> IF numerator > 0 THEN 1 ELSE IF numerator < 0 THEN -1 ELSE 0, d |-> 0]

\* EndOfDataOutcome that records price, time and profit but leaves the
\* trade without an exit reason.
EndOfDataOutcomeOpen(sig, d) ==
    LET last == Row(d, Len(d) - 1)
    IN  [exit_price |-> Some(last.close),
         exit_time |-> Some(Strftime(last.ts)),
         profit_loss |-> ProfitLoss(sig.signal_type, last.close, sig.entry_price),
         exit_reason |-> None,
         exit_idx |-> Some(Len(d) - 1),
         raised |-> ""]

\* The exit fields when no bar of future_data met a condition: the last
\* close, marked to market.  The close is a numpy float read from the
\* frame, so a zero entry price does not raise here but yields inf or nan.
\* (With the 3% stop a zero entry price puts stop and targets at zero and
\* every bar of non-negative prices meets a condition; with an ATR stop the
\* levels lie on both sides of zero and a zero entry price comes here.)
EndOfDataOutcome(sig, d) ==
    LET last == Row(d, Len(d) - 1)
        pl == ProfitLoss(sig.signal_type, last.close, sig.entry_price)
    IN  [exit_price |-> Some(last.close),
         exit_time |-> Some(Strftime(last.ts)),
         profit_loss |-> IF pl # None THEN pl
                         ELSE IF sig.signal_type = "LONG"
                              THEN Some(NumpyDivideByZero(last.close))
                              ELSE Some(NumpyDivideByZero(-last.close)),
         exit_reason |-> Some("End of data"),
         exit_idx |-> Some(Len(d) - 1),
         raised |-> ""]

\* The simulation of one signal against df.iloc[entry_idx+1:].
Outcome(sig, d, entry_idx) ==
    LET start == FutureStart(entry_idx)
        at == Scan(sig, d, start)
    IN  IF start > Len(d) - 1 THEN EmptyFutureOutcome(sig)
        ELSE IF at # None THEN LevelOutcome(sig, d, at[1])
        ELSE EndOfDataOutcome(sig, d)

\* ------------------------------------------------------------------ inputs

\* The candles the series are built from: [high, low, close] in ticks.
\* Around an entry at 100.00 they are the two bars of the documented
\* scenario, a bar spanning stop and targets, and a falling bar.
BarShapes ==
    { [high |-> 10800, low |-> 10200, close |-> 10400],
      [high |-> 11200, low |-> 10600, close |-> 11000],
      [high |-> 12500, low |-> 9100,  close |-> 10000],
      [high |-> 10000, low |-> 7800,  close |-> 9000] }

\* The candle that carries the annotator's signal flags.
EntryShape == [high |-> 10100, low |-> 9900, close |-> 10000]

\* The flag columns the annotator sets on an entry candle.
FlagChoices == { {"macd_cross_up"}, {"macd_cross_down"} }

WithFlags(shape, f) ==
    [high |-> shape.high, low |-> shape.low, close |-> shape.close, flags |-> f]

BarKinds ==
    {WithFlags(sh, {}) : sh \in BarShapes}
        \cup {WithFlags(EntryShape, f) : f \in FlagChoices}

\* A candle of an asset that has lost all value, carrying signal flags.
ZeroShape == [high |-> 100, low |-> 0, close |-> 0]

ZeroKinds == {WithFlags(ZeroShape, f) : f \in FlagChoices}

\* A candle of a price that has more than doubled from 100.00.
SpikeShape == [high |-> 24500, low |-> 10000, close |-> 24000]

SpikeKinds ==
    {WithFlags(SpikeShape, {})} \cup {WithFlags(EntryShape, f) : f \in FlagChoices}

\* The options every configuration here shares.
BaseOptions ==
    [symbol |-> "BTC/USDT", use_macd |-> TRUE, use_rsi |-> TRUE,
     use_candlestick_patterns |-> TRUE, use_harmonic_patterns |-> TRUE,
     use_price_action |-> TRUE, use_atr |-> TRUE]

Options(has_atr, atr, atr_multiplier, tp1_factor, tp2_factor) ==
    [symbol |-> BaseOptions.symbol,
     use_macd |-> BaseOptions.use_macd,
     use_rsi |-> BaseOptions.use_rsi,
     use_candlestick_patterns |-> BaseOptions.use_candlestick_patterns,
     use_harmonic_patterns |-> BaseOptions.use_harmonic_patterns,
     use_price_action |-> BaseOptions.use_price_action,
     use_atr |-> BaseOptions.use_atr,
     has_atr |-> has_atr, atr |-> atr, atr_multiplier |-> atr_multiplier,
     tp1_factor |-> tp1_factor, tp2_factor |-> tp2_factor]

\* The documented scenario: stop 5.00 from entry, targets at 2 and 4 risks.
ScenarioConfig == Options(TRUE, 500, 10, 20, 40)

\* The application's defaults (config.py): no 'atr' key, so a 3% stop;
\* targets at 1.5 and 3 risks.
DefaultConfig == Options(FALSE, 0, 20, 15, 30)

\* A configuration whose second target is nearer than the first: stop 10.00
\* from entry, targets at 3 and 2 risks.
InvertedConfig == Options(TRUE, 1000, 10, 30, 20)

\* A configuration whose ATR stop is farther from the entry than the entry
\* price itself: 150.00, targets at 1.5 and 3 risks.
WideStopConfig == Options(TRUE, 15000, 10, 15, 30)

Configs == {ScenarioConfig, DefaultConfig, InvertedConfig}

\* Index layouts [t0, step] in ms: one-minute candles; half-second candles
\* (sub-second labels); a degenerate index whose labels all coincide.
MinuteGrid == [t0 |-> 0, step |-> 60000]
HalfSecondGrid == [t0 |-> 0, step |-> 500]
DuplicateGrid == [t0 |-> 0, step |-> 0]

OddGrids == {HalfSecondGrid, DuplicateGrid}

Stamp(kinds, grid) ==
    [n \in 1..Len(kinds) |->
        [ts |-> grid.t0 + (n - 1) * grid.step,
         high |-> kinds[n].high, low |-> kinds[n].low, close |-> kinds[n].close,
         flags |-> kinds[n].flags]]

\* The candles a series starts with.  The replay loop starts at index 1 and
\* future_data at entry_idx + 1, so nothing but the label of the first
\* candle is ever read: one plain candle and one flagged candle stand for
\* all.
FirstKinds ==
    {WithFlags(EntryShape, {}), WithFlags(EntryShape, {"macd_cross_up"})}

\* The series of up to maxLen candles, the later ones drawn from kinds.
SeriesOver(kinds, maxLen) ==
    UNION {{s \in [1..n -> kinds \cup FirstKinds] :
                /\ n > 0 => s[1] \in FirstKinds
                /\ \A m \in 2..n : s[m] \in kinds} : n \in 0..maxLen}

KindSeqs(maxLen) == SeriesOver(BarKinds, maxLen)

ZeroKindSeqs(maxLen) == SeriesOver(BarKinds \cup ZeroKinds, maxLen)

\* The runs explored: [market, config].  Every configuration on one-minute
\* series of up to MaxBars bars; the odd index layouts on shorter series;
\* series with zero-priced candles under the application's defaults and
\* under the documented configuration, which has an 'atr' value; series
\* with a price spike under the configuration with the wide stop.
Inputs ==
    {[market |-> Stamp(ks, MinuteGrid), config |-> c] :
        ks \in KindSeqs(MaxBars), c \in Configs}
    \cup
    {[market |-> Stamp(ks, g), config |-> ScenarioConfig] :
        ks \in KindSeqs(MaxOddBars), g \in OddGrids}
    \cup
    {[market |-> Stamp(ks, MinuteGrid), config |-> c] :
        ks \in ZeroKindSeqs(MaxOddBars), c \in {DefaultConfig, ScenarioConfig}}
    \cup
    {[market |-> Stamp(ks, MinuteGrid), config |-> WideStopConfig] :
        ks \in SeriesOver(SpikeKinds, MaxOddBars)}

\* ------------------------------------------------------------ run_backtest

\* What fetch_historical_data returns: the OHLCV columns, no annotation.
Fetched(m) ==
    [n \in 1..Len(m) |->
        [ts |-> m[n].ts, high |-> m[n].high, low |-> m[n].low,
         close |-> m[n].close, flags |-> {}]]

\* Handler of a run without the except clause: the exception leaves the
\* call.
HandlerEscapes(exc) ==
    /\ pc' = "done"
    /\ result' = None
    /\ error' = exc
    /\ escaped' = TRUE
    /\ df' = <<>>
    /\ signals' = <<>>
    /\ i' = 0
    /\ k' = 0

\* except Exception: the error is printed and None returned; nothing of the
\* frame survives.
Handler(exc) ==
    /\ pc' = "done"
    /\ result' = None
    /\ error' = exc
    /\ escaped' = FALSE
    /\ df' = <<>>
    /\ signals' = <<>>
    /\ i' = 0
    /\ k' = 0

\* CurrentDf without the slice: the whole frame is handed on.
CurrentDfWhole(d, idx) == d

\* current_df = df.iloc[:i+1]
CurrentDf(d, idx) == SubSeq(d, 1, idx + 1)

\* Tagged that leaves the signal's timestamp as create_signal set it.
TaggedKeepsClock(sig, d, idx) ==
    [sig EXCEPT !.exit_price = None, !.exit_time = None,
                !.profit_loss = None, !.exit_reason = None,
                !.anchor = Some(idx)]

\* The body of the inner for: the anchor tag, which replaces the wall-clock
\* timestamp, and the empty exit fields.
Tagged(sig, d, idx) ==
    [sig EXCEPT !.timestamp = Some(Strftime(Row(d, idx).ts)),
                !.exit_price = None, !.exit_time = None,
                !.profit_loss = None, !.exit_reason = None,
                !.anchor = Some(idx)]

\* The signals one iteration of the replay loop appends.
NewSignals(d, idx, cfg) ==
    LET kept == filter_conflicting_signals(generate_signals(CurrentDf(d, idx), cfg))
    IN  [n \in 1..Len(kept) |-> Tagged(kept[n], d, idx)]

\* FirstAnchor of a loop over range(len(df)).
FirstAnchorZero == 1 - 1

\* range(1, len(df)): the first index of the replay loop.
FirstAnchor == 1

\* AfterReplay that returns at once (None) when nothing was collected.
AfterReplayNothingToReport(sigs) == IF sigs = <<>> THEN "done" ELSE "simulate"

\* Where the run goes when the replay loop ends: the simulation loop, whose
\* body is not entered without signals.
AfterReplay(sigs) == IF sigs = <<>> THEN "stats" ELSE "simulate"

Init ==
    /\ \E in \in Inputs :
          /\ market = in.market
          /\ config = in.config
    /\ pc = "start"
    /\ df = <<>>
    /\ i = 0
    /\ k = 0
    /\ signals = <<>>
    /\ result = None
    /\ error = ""
    /\ escaped = FALSE
    /\ db_rows = 0
    /\ df2 = <<>>
    /\ signals2 = <<>>
    /\ cut = 0
    /\ env = LaterEnv
    /\ earlier = None
    /\ fetched = <<>>
    /\ feed = <<>>
    /\ request = None
    /\ attempts = <<>>

\* Fetch without the test for a missing or empty frame.
FetchKeepsEmpty ==
    /\ pc = "start"
    /\ pc' = "fetched"
    /\ df' = Fetched(market)
    /\ fetched' = Fetched(market)
    /\ UNCHANGED <<market, config, i, k, signals, result, error, escaped,
                   db_rows, df2, signals2, cut, env, earlier,
                   feed, request, attempts>>

\* fetch_historical_data returns the series; None or an empty frame returns
\* None at once.
Fetch ==
    /\ pc = "start"
    /\ IF market = <<>>
       THEN /\ pc' = "done"
            /\ df' = <<>>
       ELSE /\ pc' = "fetched"
            /\ df' = Fetched(market)
    /\ fetched' = Fetched(market)
    /\ UNCHANGED <<market, config, i, k, signals, result, error, escaped,
                   db_rows, df2, signals2, cut, env, earlier,
                   feed, request, attempts>>

\* The date arithmetic or the fetch raises.
FetchRaises ==
    /\ pc = "start"
    /\ Handler("fetch")
    /\ UNCHANGED <<market, config, db_rows, df2, signals2, cut, env, earlier, fetched,
                   feed, request, attempts>>

\* Annotate whose annotators add their columns to the frame they are given.
AnnotateInPlace ==
    /\ pc = "fetched"
    /\ df' = market
    /\ fetched' = market
    /\ i' = FirstAnchor
    /\ signals' = <<>>
    /\ pc' = IF FirstAnchor < Len(market) THEN "replay" ELSE AfterReplay(<<>>)
    /\ UNCHANGED <<market, config, k, result, error, escaped, db_rows,
                   df2, signals2, cut, env, earlier, feed, request, attempts>>

\* calculate_indicators and analyze_patterns: each works on a copy of the
\* frame it is given, so df is rebound to the annotated copy and the
\* fetched frame keeps its columns; the replay loop starts at index 1.
Annotate ==
    /\ pc = "fetched"
    /\ df' = market
    /\ i' = FirstAnchor
    /\ signals' = <<>>
    /\ pc' = IF FirstAnchor < Len(market) THEN "replay" ELSE AfterReplay(<<>>)
    /\ UNCHANGED <<market, config, k, result, error, escaped, db_rows,
                   df2, signals2, cut, env, earlier, fetched,
                   feed, request, attempts>>

\* An indicator or a pattern detector raises.
AnnotateRaises ==
    /\ pc = "fetched"
    /\ Handler("annotate")
    /\ UNCHANGED <<market, config, db_rows, df2, signals2, cut, env, earlier, fetched,
                   feed, request, attempts>>

\* One iteration of the replay loop: candidates for the prefix ending at i,
\* each saved by create_signal, the kept ones tagged and appended.
Replay ==
    /\ pc = "replay"
    /\ i < Len(df)
    /\ LET candidates == generate_signals(CurrentDf(df, i), config)
           all == signals \o NewSignals(df, i, config)
       IN  /\ signals' = all
           /\ db_rows' = db_rows + Len(candidates)
           /\ i' = i + 1
           /\ pc' = IF i + 1 < Len(df) THEN "replay" ELSE AfterReplay(all)
    /\ k' = 0
    /\ UNCHANGED <<market, config, df, result, error, escaped, df2, signals2, cut, env, earlier, fetched,
                   feed, request, attempts>>

\* generate_signals or filter_conflicting_signals raises.
ReplayRaises ==
    /\ pc = "replay"
    /\ Handler("generate")
    /\ UNCHANGED <<market, config, db_rows, df2, signals2, cut, env, earlier, fetched,
                   feed, request, attempts>>

AfterSimulate(sigs, n) == IF n < Len(sigs) THEN "simulate" ELSE "stats"

\* One iteration of the simulation loop whose timestamp lookup fails: the
\* signal is left as it is and the loop continues.
SimulateSkip ==
    /\ pc = "simulate"
    /\ k < Len(signals)
    /\ EntryIdx(df, signals[k + 1].timestamp[1]) = None
    /\ k' = k + 1
    /\ pc' = AfterSimulate(signals, k + 1)
    /\ UNCHANGED <<market, config, df, i, signals, result, error, escaped,
                   db_rows, df2, signals2, cut, env, earlier, fetched,
                   feed, request, attempts>>

\* One iteration of the simulation loop: the signal's exit fields are set
\* from the bars after entry_idx; a division by a zero entry price raises.
Simulate ==
    /\ pc = "simulate"
    /\ k < Len(signals)
    /\ EntryIdx(df, signals[k + 1].timestamp[1]) # None
    /\ LET sig == signals[k + 1]
           entry_idx == EntryIdx(df, sig.timestamp[1])[1]
           out == Outcome(sig, df, entry_idx)
       IN  IF out.raised # ""
           THEN Handler(out.raised)
           ELSE /\ signals' = [signals EXCEPT ![k + 1] =
                       [sig EXCEPT !.exit_price = out.exit_price,
                                   !.exit_time = out.exit_time,
                                   !.profit_loss = out.profit_loss,
                                   !.exit_reason = out.exit_reason,
                                   !.future_from = Some(FutureStart(entry_idx)),
                                   !.exit_idx = out.exit_idx]]
                /\ k' = k + 1
                /\ pc' = AfterSimulate(signals, k + 1)
                /\ UNCHANGED <<df, i, result, error, escaped>>
    /\ UNCHANGED <<market, config, db_rows, df2, signals2, cut, env, earlier, fetched,
                   feed, request, attempts>>

Winning(sigs) == SelectSeq(sigs, LAMBDA s : Positive(s.profit_loss[1]))
Losing(sigs) == SelectSeq(sigs, LAMBDA s : NotPositive(s.profit_loss[1]))

\* [s['profit_loss'] for s in sigs]
ProfitLosses(sigs) == [n \in 1..Len(sigs) |-> sigs[n].profit_loss[1]]

\* (winning / total) * 100, or 0 without signals.
WinRate(winning, total) ==
    IF total > 0 THEN Rat(winning * 100, total) ELSE Whole(0)

\* sum of profit_loss / total, or 0 without signals.
AvgProfit(sigs) ==
    IF Len(sigs) > 0 THEN Over(Sum(ProfitLosses(sigs)), Whole(Len(sigs))) ELSE Whole(0)

\* Insert one signal into a list sorted by timestamp, after its equals.
RECURSIVE InsertByTimestamp(_, _)
InsertByTimestamp(sorted, s) ==
    IF sorted = <<>> THEN <<s>>
    ELSE IF Last(sorted).timestamp[1] <= s.timestamp[1] THEN Append(sorted, s)
         ELSE Append(InsertByTimestamp(SubSeq(sorted, 1, Len(sorted) - 1), s), Last(sorted))

\* sorted(signals, key=lambda s: s['timestamp']): a stable sort.
RECURSIVE SortedByTimestamp(_)
SortedByTimestamp(sigs) ==
    IF sigs = <<>> THEN <<>>
    ELSE InsertByTimestamp(SortedByTimestamp(SubSeq(sigs, 1, Len(sigs) - 1)), Last(sigs))

\* equity_curve: 100, then each signal's profit_loss applied as a fraction.
RECURSIVE EquityCurve(_)
EquityCurve(sorted_signals) ==
    IF sorted_signals = <<>> THEN <<Whole(100)>>
    ELSE LET before == EquityCurve(SubSeq(sorted_signals, 1, Len(sorted_signals) - 1))
             profit_loss == Over(Last(sorted_signals).profit_loss[1], Whole(100))
         IN  Append(before, Times(Last(before), Plus(Whole(1), profit_loss)))

\* One step of Python's max: the later value replaces the earlier one only
\* if it is greater.
MaxOf(a, b) == IF Less(a, b) THEN b ELSE a

\* np.maximum, which yields nan when either argument is nan.
NumpyMaximum(a, b) == IF IsNaN(a) \/ IsNaN(b) THEN NaN ELSE MaxOf(a, b)

\* np.maximum.accumulate(curve)
RECURSIVE Accumulate(_)
Accumulate(curve) ==
    IF Len(curve) = 1 THEN curve
    ELSE LET before == Accumulate(SubSeq(curve, 1, Len(curve) - 1))
         IN  Append(before, NumpyMaximum(Last(before), Last(curve)))

\* max(list)
RECURSIVE Largest(_)
Largest(rs) ==
    IF Len(rs) = 1 THEN rs[1]
    ELSE MaxOf(Largest(SubSeq(rs, 1, Len(rs) - 1)), Last(rs))

\* MaxDrawdown measured from the starting equity, not from the running
\* maximum.
DrawdownFromStart(sigs) ==
    IF Len(sigs) > 0
    THEN LET equity_curve == EquityCurve(SortedByTimestamp(sigs))
             drawdown == [n \in 1..Len(equity_curve) |->
                             Times(Over(Minus(equity_curve[1], equity_curve[n]),
                                        equity_curve[1]), Whole(100))]
         IN  Largest(drawdown)
    ELSE Whole(0)

\* The largest of (running_max - equity) / running_max * 100 over the equity
\* curve, or 0 without signals.
MaxDrawdown(sigs) ==
    IF Len(sigs) > 0
    THEN LET equity_curve == EquityCurve(SortedByTimestamp(sigs))
             running_max == Accumulate(equity_curve)
             drawdown == [n \in 1..Len(equity_curve) |->
                             Times(Over(Minus(running_max[n], equity_curve[n]),
                                        running_max[n]), Whole(100))]
         IN  Largest(drawdown)
    ELSE Whole(0)

WinningSum(sigs) == Sum(ProfitLosses(Winning(sigs)))

\* abs(sum of the negative profit_loss)
LosingSum(sigs) ==
    AbsRat(Sum(ProfitLosses(SelectSeq(sigs, LAMBDA s : s.profit_loss[1].n < 0))))

\* ProfitFactor that reports 0 whenever nothing was lost.
ProfitFactorZeroWithoutLoss(winning_sum, losing_sum) ==
    IF losing_sum.n > 0 THEN Over(winning_sum, losing_sum) ELSE Whole(0)

\* winning_sum / losing_sum, or winning_sum (0 if not positive) when
\* nothing was lost.
ProfitFactor(winning_sum, losing_sum) ==
    IF losing_sum.n > 0 THEN Over(winning_sum, losing_sum)
    ELSE IF winning_sum.n > 0 THEN winning_sum ELSE Whole(0)

\* The entry a strategy gets when its first signal is met.
NewStrategy ==
    [count |-> 0, win_count |-> 0, loss_count |-> 0,
     profit_sum |-> Whole(0), loss_sum |-> Whole(0)]

\* TallySignal that books the signed profit_loss of a losing signal.
TallySignalSigned(perf, s) ==
    LET seen == IF s.strategy \in DOMAIN perf THEN perf
                ELSE [x \in DOMAIN perf \cup {s.strategy} |->
                         IF x \in DOMAIN perf THEN perf[x] ELSE NewStrategy]
        old == seen[s.strategy]
        pl == s.profit_loss[1]
    IN  [seen EXCEPT ![s.strategy] =
            IF pl.n > 0
            THEN [old EXCEPT !.count = @ + 1, !.win_count = @ + 1,
                             !.profit_sum = Plus(@, pl)]
            ELSE [old EXCEPT !.count = @ + 1, !.loss_count = @ + 1,
                             !.loss_sum = Plus(@, pl)]]

\* One iteration of the loop over signals that fills strategy_performance.
TallySignal(perf, s) ==
    LET seen == IF s.strategy \in DOMAIN perf THEN perf
                ELSE [x \in DOMAIN perf \cup {s.strategy} |->
                         IF x \in DOMAIN perf THEN perf[x] ELSE NewStrategy]
        old == seen[s.strategy]
        pl == s.profit_loss[1]
    IN  [seen EXCEPT ![s.strategy] =
            IF pl.n > 0
            THEN [old EXCEPT !.count = @ + 1, !.win_count = @ + 1,
                             !.profit_sum = Plus(@, pl)]
            ELSE [old EXCEPT !.count = @ + 1, !.loss_count = @ + 1,
                             !.loss_sum = Plus(@, AbsRat(pl))]]

\* strategy_performance after the loop over signals.
RECURSIVE Tally(_)
Tally(sigs) ==
    IF sigs = <<>> THEN <<>>
    ELSE TallySignal(Tally(SubSeq(sigs, 1, Len(sigs) - 1)), Last(sigs))

\* strategy_performance with each strategy's win_rate and profit_factor.
StrategyPerformance(sigs) ==
    LET tally == Tally(sigs)
    IN  [x \in DOMAIN tally |->
            LET perf == tally[x]
            IN  [count |-> perf.count,
                 win_count |-> perf.win_count,
                 loss_count |-> perf.loss_count,
                 profit_sum |-> perf.profit_sum,
                 loss_sum |-> perf.loss_sum,
                 win_rate |-> IF perf.count > 0
                              THEN Rat(perf.win_count * 100, perf.count)
                              ELSE Whole(0),
                 profit_factor |-> IF perf.loss_sum.n > 0
                                   THEN Over(perf.profit_sum, perf.loss_sum)
                                   ELSE IF perf.profit_sum.n > 0
                                        THEN perf.profit_sum ELSE Whole(0)]]

\* The results dictionary over the collected signals.
Statistics(sigs) ==
    [total_signals |-> Len(sigs),
     winning_signals |-> Len(Winning(sigs)),
     losing_signals |-> Len(Losing(sigs)),
     win_rate |-> WinRate(Len(Winning(sigs)), Len(sigs)),
     avg_profit |-> AvgProfit(sigs),
     max_drawdown |-> MaxDrawdown(sigs),
     profit_factor |-> ProfitFactor(WinningSum(sigs), LosingSum(sigs)),
     signals |-> sigs,
     strategy_performance |-> StrategyPerformance(sigs)]

\* The performance metrics and the result record; a signal the simulation
\* skipped still has profit_loss None, and comparing it with 0 raises.
Stats ==
    /\ pc = "stats"
    /\ IF \E n \in 1..Len(signals) : signals[n].profit_loss = None
       THEN Handler("TypeError")
       ELSE /\ result' = Some(Statistics(signals))
            /\ pc' = "done"
            /\ UNCHANGED <<df, i, k, signals, error, escaped>>
    /\ UNCHANGED <<market, config, db_rows, df2, signals2, cut, env, earlier, fetched,
                   feed, request, attempts>>

Next ==
    \/ Fetch
    \/ FetchRaises
    \/ Annotate
    \/ AnnotateRaises
    \/ Replay
    \/ ReplayRaises
    \/ SimulateSkip
    \/ Simulate
    \/ Stats

Spec == Init /\ [][Next]_vars

\* ---------------------------------------------------------------- properties

\* The signals whose simulation has run, and the terminal ones.
Simulated(s) == s.future_from # None
Terminal(s) == s.exit_reason # None

CollectedSignals == {signals[n] : n \in 1..Len(signals)}

\* The positions of the bars a simulated signal was tested against.
FuturePositions(s) == s.future_from[1] .. (Len(df) - 1)

\* Some exit condition of the signal holds on the bar.
AnyCondition(s, row) == StopHit(s, row) \/ Target1Hit(s, row) \/ Target2Hit(s, row)

\* No bar tested before position j met a condition.
NoneBefore(s, j) ==
    \A b \in FuturePositions(s) : b < j => ~AnyCondition(s, Row(df, b))

\* The index labels are whole seconds, unique and increasing.
WholeSecondIndex(d) ==
    /\ \A n \in 1..Len(d) : d[n].ts % MsPerSec = 0
    /\ \A a, b \in 1..Len(d) : a < b => d[a].ts < d[b].ts

\* C1: Stop-loss priority.  For every simulated signal, LONG or SHORT, and
\* every tested bar on which the stop condition and a target condition both
\* hold while no earlier tested bar met any condition, the signal exits
\* there with reason Stop Loss at exit_price = stop_loss.
C1_StopLossPriority ==
    \A s \in CollectedSignals :
        Simulated(s) =>
            \A j \in FuturePositions(s) :
                ( /\ StopHit(s, Row(df, j))
                  /\ Target1Hit(s, Row(df, j)) \/ Target2Hit(s, Row(df, j))
                  /\ NoneBefore(s, j) )
                => /\ s.exit_reason = Some("Stop Loss")
                   /\ s.exit_price = Some(s.stop_loss)
                   /\ s.exit_idx = Some(j)

BothOnFirstTouch(s) ==
    /\ Simulated(s)
    /\ \E j \in FuturePositions(s) :
          /\ StopHit(s, Row(df, j))
          /\ Target1Hit(s, Row(df, j))
          /\ NoneBefore(s, j)
          /\ s.exit_idx = Some(j)
    /\ s.exit_reason = Some("Stop Loss")

\* C1 witness: a LONG and a SHORT signal each met stop and target on the
\* same first-touched bar and exited on the stop.
C1_Witness ==
    /\ \E s \in CollectedSignals : s.signal_type = "LONG" /\ BothOnFirstTouch(s)
    /\ \E s \in CollectedSignals : s.signal_type = "SHORT" /\ BothOnFirstTouch(s)

\* The exit fields a simulated signal would get from the frame cut after
\* position j.
OutcomeOnPrefix(s, j) == Outcome(s, SubSeq(df, 1, j + 1), s.future_from[1] - 1)

\* C2: First touch.  A signal that exits on a level exits on the earliest
\* tested bar on which any condition holds: a condition holds on the exit
\* bar, none on a tested bar before it, and the exit fields are those the
\* frame cut after the exit bar gives (later bars have no influence).  A
\* signal with tested bars that exits at End of data met no condition.
C2_FirstTouch ==
    \A s \in CollectedSignals :
        (Simulated(s) /\ FuturePositions(s) # {}) =>
            /\ Terminal(s)
            /\ s.exit_idx # None
            /\ s.exit_idx[1] \in FuturePositions(s)
            /\ NoneBefore(s, s.exit_idx[1])
            /\ IF s.exit_reason = Some("End of data")
               THEN /\ s.exit_idx[1] = Len(df) - 1
                    /\ ~AnyCondition(s, Row(df, s.exit_idx[1]))
               ELSE /\ AnyCondition(s, Row(df, s.exit_idx[1]))
                    /\ LET cutOut == OutcomeOnPrefix(s, s.exit_idx[1])
                       IN  /\ s.exit_price = cutOut.exit_price
                           /\ s.exit_time = cutOut.exit_time
                           /\ s.profit_loss = cutOut.profit_loss
                           /\ s.exit_reason = cutOut.exit_reason

\* C2 witness: the documented scenario.  LONG, entry 100, stop 95, targets
\* 110 and 120; tested bars (high 108, low 102) then (high 112, low 106);
\* exit on the second bar at Target 1, exit_price 110, profit_loss 10.
C2_Witness ==
    \E s \in CollectedSignals :
        /\ s.signal_type = "LONG"
        /\ s.entry_price = 10000 /\ s.stop_loss = 9500
        /\ s.target1 = 11000 /\ s.target2 = 12000
        /\ Simulated(s)
        /\ s.future_from[1] + 1 = Len(df) - 1
        /\ Row(df, s.future_from[1]).high = 10800
        /\ Row(df, s.future_from[1]).low = 10200
        /\ Row(df, s.future_from[1] + 1).high = 11200
        /\ Row(df, s.future_from[1] + 1).low = 10600
        /\ s.exit_idx = Some(s.future_from[1] + 1)
        /\ s.exit_reason = Some("Target 1")
        /\ s.exit_price = Some(11000)
        /\ s.profit_loss = Some([n |-> 10, d |-> 1])

\* C3: exit_price by exit_reason.  Stop Loss: stop_loss; Target 1: target1;
\* Target 2: target2; End of data: the entry price when no bar was tested,
\* else the close of the last bar of the series.
C3_ExitPriceByReason ==
    \A s \in CollectedSignals :
        Terminal(s) =>
            /\ s.exit_reason[1] \in {"Stop Loss", "Target 1", "Target 2", "End of data"}
            /\ s.exit_reason[1] = "Stop Loss" => s.exit_price = Some(s.stop_loss)
            /\ s.exit_reason[1] = "Target 1" => s.exit_price = Some(s.target1)
            /\ s.exit_reason[1] = "Target 2" => s.exit_price = Some(s.target2)
            /\ s.exit_reason[1] = "End of data" =>
                  IF FuturePositions(s) = {}
                  THEN s.exit_price = Some(s.entry_price)
                  ELSE s.exit_price = Some(Row(df, Len(df) - 1).close)

ExitsWith(reason) ==
    \E s \in CollectedSignals :
        /\ s.exit_reason = Some(reason)
        /\ s.exit_idx # None
        /\ s.exit_price # Some(Row(df, s.exit_idx[1]).high)
        /\ s.exit_price # Some(Row(df, s.exit_idx[1]).low)

\* C3 witness: one run holds a Stop Loss exit and a Target 2 exit, each at a
\* price that is neither the high nor the low of its exit bar.
C3_Witness ==
    /\ ExitsWith("Stop Loss")
    /\ ExitsWith("Target 2")

\* C4: Sign convention.  For every terminal LONG signal profit_loss > 0 iff
\* exit_price > entry_price, for every terminal SHORT signal profit_loss > 0
\* iff exit_price < entry_price; with a non-zero entry price profit_loss is
\* (exit - entry) / entry * 100 for LONG and (entry - exit) / entry * 100
\* for SHORT.
C4_SignConvention ==
    \A s \in CollectedSignals :
        Terminal(s) =>
            LET pl == s.profit_loss[1]
                exit == s.exit_price[1]
                entry == s.entry_price
            IN  /\ s.signal_type = "LONG" => (pl.n > 0 <=> exit > entry)
                /\ s.signal_type = "SHORT" => (pl.n > 0 <=> exit < entry)
                /\ entry > 0 => pl.d > 0
                /\ (entry > 0 /\ s.signal_type = "LONG")
                      => pl.n * entry = (exit - entry) * 100 * pl.d
                /\ (entry > 0 /\ s.signal_type = "SHORT")
                      => pl.n * entry = (entry - exit) * 100 * pl.d

\* C4 witness: one run holds a winning SHORT (exit below entry) and a losing
\* LONG (exit below entry).
C4_Witness ==
    /\ \E s \in CollectedSignals :
          /\ Terminal(s) /\ s.signal_type = "SHORT"
          /\ s.profit_loss[1].n > 0 /\ s.exit_price[1] < s.entry_price
    /\ \E s \in CollectedSignals :
          /\ Terminal(s) /\ s.signal_type = "LONG"
          /\ s.profit_loss[1].n < 0 /\ s.exit_price[1] < s.entry_price

\* C5: Empty future.  A simulated signal with no bar after its entry
\* position is terminal with exit_price = entry_price, exit_time = its
\* anchor tag, profit_loss = 0 and exit_reason End of data; on an index of
\* unique increasing whole seconds that is every simulated signal anchored
\* at the last bar.
C5_EmptyFutureFlat ==
    \A s \in CollectedSignals :
        Simulated(s) =>
            /\ FuturePositions(s) = {} =>
                  /\ s.exit_price = Some(s.entry_price)
                  /\ s.exit_time = s.timestamp
                  /\ s.profit_loss = Some([n |-> 0, d |-> 1])
                  /\ s.exit_reason = Some("End of data")
            /\ (WholeSecondIndex(df) /\ s.anchor = Some(Len(df) - 1))
                  => FuturePositions(s) = {}

\* C5 witness: a simulated signal anchored at the last bar of a series of
\* MaxBars bars, terminal at End of data with profit_loss 0.
C5_Witness ==
    \E s \in CollectedSignals :
        /\ Len(df) = MaxBars
        /\ s.anchor = Some(Len(df) - 1)
        /\ Simulated(s) /\ FuturePositions(s) = {}
        /\ s.exit_reason = Some("End of data")
        /\ s.exit_price = Some(s.entry_price)
        /\ s.profit_loss[1].n = 0

\* The mark-to-market profit of a signal at a price, as a rational.
MarkToMarket(s, price) ==
    IF s.signal_type = "LONG"
    THEN Rat((price - s.entry_price) * 100, s.entry_price)
    ELSE Rat((s.entry_price - price) * 100, s.entry_price)

\* C6: End of data.  A simulated signal with tested bars none of which met a
\* condition stays in the collection and exits at the close of the last bar
\* of the series: exit_time is that bar's timestamp, exit_reason End of
\* data, profit_loss marked to market from that close with the direction's
\* sign; the returned collection is the collected one.
C6_EndOfDataMarkToMarket ==
    /\ \A s \in CollectedSignals :
          ( /\ Simulated(s)
            /\ FuturePositions(s) # {}
            /\ \A j \in FuturePositions(s) : ~AnyCondition(s, Row(df, j)) )
          => /\ s.exit_price = Some(Row(df, Len(df) - 1).close)
             /\ s.exit_time = Some(Strftime(Row(df, Len(df) - 1).ts))
             /\ s.exit_reason = Some("End of data")
             /\ s.entry_price > 0 =>
                   s.profit_loss = Some(MarkToMarket(s, Row(df, Len(df) - 1).close))
    /\ (pc = "done" /\ result # None) => result[1].signals = signals

UntouchedToEnd(s) ==
    /\ Simulated(s)
    /\ FuturePositions(s) # {}
    /\ \A j \in FuturePositions(s) : ~AnyCondition(s, Row(df, j))
    /\ s.exit_reason = Some("End of data")

\* C6 witness: a returned result holds a LONG signal marked to market at a
\* profit and a SHORT signal marked to market at a loss, neither having met
\* a condition on its tested bars.
C6_Witness ==
    /\ pc = "done" /\ result # None
    /\ \E s \in {result[1].signals[n] : n \in 1..Len(result[1].signals)} :
          /\ UntouchedToEnd(s) /\ s.signal_type = "LONG"
          /\ s.profit_loss[1].n > 0
    /\ \E s \in {result[1].signals[n] : n \in 1..Len(result[1].signals)} :
          /\ UntouchedToEnd(s) /\ s.signal_type = "SHORT"
          /\ s.profit_loss[1].n < 0

\* C7: Bars strictly after the anchor.  On an index of unique increasing
\* whole seconds every collected signal is simulated (none is skipped), and
\* a signal generated at index a is tested against exactly the bars
\* a+1 .. n-1: its exit bar, if any, lies after its anchor.
C7_SimulatedAfterAnchor ==
    WholeSecondIndex(df) =>
        /\ \A s \in CollectedSignals :
              Simulated(s) =>
                  /\ s.future_from = Some(s.anchor[1] + 1)
                  /\ s.exit_idx # None => s.exit_idx[1] > s.anchor[1]
        /\ \A n \in 1..Len(signals) :
              (pc \in {"stats", "done"} \/ (pc = "simulate" /\ n <= k))
                  => Simulated(signals[n])

\* C7 witness: on a one-minute series of MaxBars bars a signal anchored at
\* index 1 was tested against bars 2 and 3 and left on bar 3.
C7_Witness ==
    /\ WholeSecondIndex(df) /\ Len(df) = MaxBars
    /\ \E s \in CollectedSignals :
          /\ s.anchor = Some(1)
          /\ s.future_from = Some(2)
          /\ s.exit_idx = Some(Len(df) - 1)
          /\ s.exit_reason # Some("End of data")

\* The signals the replay appends for the anchors 1 .. last, in order.
RECURSIVE ReplayedUpTo(_, _)
ReplayedUpTo(d, last) ==
    IF last < 1 THEN <<>>
    ELSE ReplayedUpTo(d, last - 1) \o NewSignals(d, last, config)

\* The collection without what the simulation adds.
Unsimulated(sigs) ==
    [n \in 1..Len(sigs) |->
        [sigs[n] EXCEPT !.exit_price = None, !.exit_time = None,
                        !.profit_loss = None, !.exit_reason = None,
                        !.future_from = None, !.exit_idx = None]]

\* C8: Replay order.  The replay loop's index runs over 1 .. n-1 and never
\* 0; while and after it runs the collection is exactly the kept signals of
\* the anchors visited so far in increasing order, so no signal is anchored
\* at the first bar, every signal carries the formatted timestamp and the
\* close of the bar at which it was generated, and the collection is
\* ordered by non-decreasing anchor.
C8_ReplayOrder ==
    /\ pc = "replay" => (i >= 1 /\ i <= Len(df) - 1)
    /\ pc = "replay" => Unsimulated(signals) = ReplayedUpTo(df, i - 1)
    /\ pc \in {"simulate", "stats"} =>
          Unsimulated(signals) = ReplayedUpTo(df, Len(df) - 1)
    /\ \A n \in 1..Len(signals) :
          /\ signals[n].anchor # None
          /\ signals[n].anchor[1] \in 1 .. (Len(df) - 1)
          /\ signals[n].timestamp = Some(Strftime(Row(df, signals[n].anchor[1]).ts))
          /\ signals[n].entry_price = Row(df, signals[n].anchor[1]).close
    /\ \A m, n \in 1..Len(signals) :
          m < n => signals[m].anchor[1] <= signals[n].anchor[1]

\* C8 witness: the replay of a series of MaxBars bars whose first bar
\* carries a signal flag has ended with a signal at each of the anchors 1, 2
\* and 3 and none at 0.
C8_Witness ==
    /\ pc = "simulate" /\ k = 0
    /\ Len(df) = MaxBars
    /\ df[1].flags # {}
    /\ Len(signals) = 3
    /\ \A n \in 1..3 : signals[n].anchor = Some(n)

\* C10: No exception escapes run_backtest.  Whatever raised inside the run,
\* the call has returned None; a returned value is None or a result record.
C10_NeverThrows ==
    /\ escaped = FALSE
    /\ error # "" => (pc = "done" /\ result = None)
    /\ (pc = "done" /\ result # None) =>
          (Len(result) = 1 /\ result[1].total_signals = Len(result[1].signals))

\* C10 witness: a failure inside the statistics step (a skipped signal's
\* profit_loss, still None, compared with 0) has ended in a returned None.
C10_Witness ==
    /\ pc = "done" /\ result = None
    /\ error = "TypeError"
    /\ ~escaped

\* ------------------------------------------------- a pair of replay loops

\* What the second series holds after the common prefix: nothing or one bar.
Tails == {<<>>} \cup {<<b>> : b \in BarKinds}

\* Two annotated series that agree on the bars at indices <= cut, the same
\* configuration, both replay loops about to start.
InitPair ==
    /\ \E ks \in KindSeqs(MaxPairBars) \ {<<>>}, tail \in Tails,
          c \in {ScenarioConfig, DefaultConfig} :
          \E at \in 0..(Len(ks) - 1) :
              /\ market = Stamp(ks, MinuteGrid)
              /\ df = Stamp(ks, MinuteGrid)
              /\ df2 = Stamp(SubSeq(ks, 1, at + 1) \o tail, MinuteGrid)
              /\ cut = at
              /\ config = c
    /\ pc = "pair"
    /\ i = FirstAnchor
    /\ k = 0
    /\ signals = <<>>
    /\ signals2 = <<>>
    /\ result = None
    /\ error = ""
    /\ escaped = FALSE
    /\ db_rows = 0
    /\ env = LaterEnv
    /\ earlier = None
    /\ fetched = Fetched(market)
    /\ feed = <<>>
    /\ request = None
    /\ attempts = <<>>

\* One iteration of the replay loop in each of the two runs, at the same
\* index (a run whose series has ended does nothing).
ReplayPair ==
    /\ pc = "pair"
    /\ i < Len(df) \/ i < Len(df2)
    /\ signals' = IF i < Len(df) THEN signals \o NewSignals(df, i, config)
                  ELSE signals
    /\ signals2' = IF i < Len(df2) THEN signals2 \o NewSignals(df2, i, config)
                   ELSE signals2
    /\ i' = i + 1
    /\ UNCHANGED <<market, config, pc, df, k, result, error, escaped,
                   db_rows, df2, cut, env, earlier, fetched,
                   feed, request, attempts>>

NextPair == ReplayPair

SpecPair == InitPair /\ [][NextPair]_vars

AnchoredAt(sigs, a) == SelectSeq(sigs, LAMBDA s : s.anchor = Some(a))

\* C9: No look-ahead.  For two annotated series that agree on the bars at
\* indices <= cut, the signals kept at every anchor a <= cut (direction,
\* strategy, entry, stop, targets, tag) are the same in both runs, whatever
\* the bars after cut are.
C9_NoLookAhead ==
    pc = "pair" =>
        \A a \in 1..cut :
            a < i => AnchoredAt(signals, a) = AnchoredAt(signals2, a)

\* C9 witness: both loops have ended; the series agree up to cut >= 1 and
\* differ in the bar after it, a signal was kept at an anchor <= cut in both
\* runs, and the signals kept after cut differ.
C9_Witness ==
    /\ pc = "pair"
    /\ cut >= 1
    /\ i >= Len(df) /\ i >= Len(df2)
    /\ Len(df) > cut + 1 /\ Len(df2) > cut + 1
    /\ Row(df, cut + 1) # Row(df2, cut + 1)
    /\ \E a \in 1..cut : AnchoredAt(signals, a) # <<>>
    /\ AnchoredAt(signals, cut + 1) # AnchoredAt(signals2, cut + 1)

\* -------------------------------------------------------- C11: empty series

\* C11: When the bar series is null or empty, run_backtest returns None
\* without raising, and nothing is annotated, generated, saved or simulated:
\* the run is either not started or finished, with no result, no collected
\* signal, no row written and no exception out of the call.
C11_EmptySeriesReturnsNone ==
    market = <<>> =>
        /\ pc \in {"start", "done"}
        /\ result = None
        /\ ~escaped
        /\ signals = <<>>
        /\ db_rows = 0
        /\ i = 0 /\ k = 0

\* The fetch yielded an empty frame without raising and the run is over.
C11_Witness ==
    /\ market = <<>>
    /\ pc = "done"
    /\ error = ""
    /\ result = None

\* ------------------------------------------------- C12: unresolvable anchor

\* The signals the simulation loop completed.
TerminalSignals(sigs) == SelectSeq(sigs, Terminal)

\* C12: One bad signal does not abort the backtest.  When the statistics
\* step starts with a signal whose timestamp lookup failed (it was skipped
\* and has no outcome), the run returns a result, and that result holds
\* and counts the remaining, simulated signals only.
C12_SkippedSignalKeepsResult ==
    [][ (pc = "stats" /\ \E n \in 1..Len(signals) : ~Terminal(signals[n]))
            => /\ result' # None
               /\ result'[1].signals = TerminalSignals(signals)
               /\ result'[1].total_signals = Len(TerminalSignals(signals)) ]_vars

\* ------------------------------------------------------ C13: zero entry price

\* C13: Zero entry price is special-cased.  When the simulation loop comes
\* to a signal whose entry_price is 0, it assigns that signal a defined
\* profit_loss and goes on, without a division error ending the run.
C13_ZeroEntryFallback ==
    [][ ( /\ pc = "simulate"
          /\ k < Len(signals)
          /\ signals[k + 1].entry_price = 0 )
            => /\ error' = ""
               /\ k + 1 <= Len(signals')
               /\ signals'[k + 1].profit_loss # None
               /\ signals'[k + 1].profit_loss[1].d > 0 ]_vars

\* --------------------------------------------- the statistics step on its own

\* Most terminal signals handed to the statistics step.
MaxStatSignals == 3

\* Outcomes in percent: two gains (25 is the documented all-winning sum),
\* a flat outcome and two losses.
StatProfits == {Whole(10), Whole(25), Whole(0), Whole(-5), Whole(-20)}

\* The outcomes behind the documented equity curve 100, 110, 90, 95.
DocumentedProfits == <<Whole(10), Rat(-200, 11), Rat(50, 9)>>

StatStrategies == {"MACD Bullish Crossover", "MACD Bearish Crossover"}

\* A terminal signal as the statistics step reads it: its anchor tag, its
\* strategy and its profit_loss.  The nth signal of a collection is anchored
\* at minute (n + 1) \div 2, so anchors ascend and two signals share each.
StatSignal(n, strategy, profit_loss) ==
    [timestamp |-> Some(60 * ((n + 1) \div 2)),
     strategy |-> strategy,
     profit_loss |-> Some(profit_loss)]

\* run_backtest at line 175, the simulation loop done over a collection of
\* up to MaxStatSignals signals with any of the outcomes above, or over the
\* signals of the documented curve.
InitStats ==
    /\ \/ \E len \in 0..MaxStatSignals :
             \E f \in [1..len -> StatStrategies \X StatProfits] :
                signals = [n \in 1..len |-> StatSignal(n, f[n][1], f[n][2])]
       \/ \E f \in [1..Len(DocumentedProfits) -> StatStrategies] :
             signals = [n \in 1..Len(DocumentedProfits) |->
                           StatSignal(n, f[n], DocumentedProfits[n])]
    /\ pc = "stats"
    /\ market = <<>>
    /\ config = DefaultConfig
    /\ df = <<>>
    /\ i = 0
    /\ k = Len(signals)
    /\ result = None
    /\ error = ""
    /\ escaped = FALSE
    /\ db_rows = 0
    /\ df2 = <<>>
    /\ signals2 = <<>>
    /\ cut = 0
    /\ env = LaterEnv
    /\ earlier = None
    /\ fetched = <<>>
    /\ feed = <<>>
    /\ request = None
    /\ attempts = <<>>

NextStats == Stats

SpecStats == InitStats /\ [][NextStats]_vars

\* ------------------------------------------------------- C14: profit factor

\* The sum of the rationals rs[n] for n in the set S.
RECURSIVE SumOver(_, _)
SumOver(rs, S) ==
    IF S = {} THEN Whole(0)
    ELSE LET x == CHOOSE x \in S : TRUE
         IN  Plus(rs[x], SumOver(rs, S \ {x}))

\* The sum of the positive profit_loss and of the absolute negative ones.
PositiveSum(sigs) ==
    SumOver(ProfitLosses(sigs), {n \in 1..Len(sigs) : sigs[n].profit_loss[1].n > 0})

NegativeSum(sigs) ==
    SumOver([n \in 1..Len(sigs) |-> AbsRat(sigs[n].profit_loss[1])],
            {n \in 1..Len(sigs) : sigs[n].profit_loss[1].n < 0})

\* C14: profit_factor is a defined number >= 0 for every collection of
\* terminal signals.  If the sum of absolute losses is > 0 it is the sum of
\* the positive profit_loss divided by that sum; otherwise it equals the sum
\* of the positive profit_loss (which is 0 if there is none).
C14_ProfitFactor ==
    (pc = "done" /\ error = "") =>
        /\ result # None
        /\ LET pf == result[1].profit_factor
               pos == PositiveSum(signals)
               neg == NegativeSum(signals)
           IN  /\ pf.d > 0
               /\ pf.n >= 0
               /\ neg.n > 0 => Times(pf, neg) = pos
               /\ neg.n = 0 => pf = pos

\* The documented scenario: no losing signal, winning sum 25, and a profit
\* factor of 25.
C14_Witness ==
    /\ result # None
    /\ Len(signals) >= 2
    /\ NegativeSum(signals) = Whole(0)
    /\ PositiveSum(signals) = Whole(25)
    /\ result[1].profit_factor = Whole(25)

\* ---------------------------------------------------- C15: no signals at all

\* C15: When the replay of a non-empty series produces no signal (a series
\* of exactly one bar included), run_backtest returns a result, not None,
\* with total_signals, winning_signals, losing_signals, win_rate, avg_profit,
\* max_drawdown and profit_factor all 0, no signals and an empty
\* per-strategy map.
C15_NoSignalsResult ==
    (pc = "done" /\ error = "" /\ market # <<>> /\ signals = <<>>) =>
        /\ result # None
        /\ result[1].total_signals = 0
        /\ result[1].winning_signals = 0
        /\ result[1].losing_signals = 0
        /\ result[1].win_rate = Whole(0)
        /\ result[1].avg_profit = Whole(0)
        /\ result[1].max_drawdown = Whole(0)
        /\ result[1].profit_factor = Whole(0)
        /\ result[1].signals = <<>>
        /\ DOMAIN result[1].strategy_performance = {}

\* A run over a single bar has returned its result.
C15_Witness ==
    /\ Len(market) = 1
    /\ pc = "done"
    /\ result # None
    /\ result[1].total_signals = 0

\* ------------------------------------------------- C16: flat is not a loss

\* The signal had no bar after its entry and was closed flat.
FlatForLackOfFuture(s) ==
    /\ Simulated(s)
    /\ s.future_from[1] > Len(df) - 1
    /\ s.profit_loss = Some(Whole(0))

\* C16: A flat outcome is not a loss.  In every result, losing_signals
\* counts only signals with profit_loss <= 0 other than those closed flat
\* for lack of future bars, and so does each strategy's loss_count.
C16_FlatNotCountedAsLoss ==
    result # None =>
        LET sigs == result[1].signals
            losers(label) ==
                {n \in 1..Len(sigs) :
                    /\ sigs[n].strategy \in label
                    /\ sigs[n].profit_loss[1].n <= 0
                    /\ ~FlatForLackOfFuture(sigs[n])}
            all == {sigs[n].strategy : n \in 1..Len(sigs)}
        IN  /\ result[1].losing_signals = Cardinality(losers(all))
            /\ \A x \in all :
                  result[1].strategy_performance[x].loss_count = Cardinality(losers({x}))

\* ------------------------------------------------------- C17: max drawdown

\* The positions of sigs in non-decreasing order of anchor timestamp, ties
\* in generation order.
AnchorOrder(sigs) ==
    CHOOSE p \in [1..Len(sigs) -> 1..Len(sigs)] :
        \A a, b \in 1..Len(sigs) :
            a < b =>
                \/ sigs[p[a]].timestamp[1] < sigs[p[b]].timestamp[1]
                \/ /\ sigs[p[a]].timestamp[1] = sigs[p[b]].timestamp[1]
                   /\ p[a] < p[b]

\* The equity curve of sigs as a function on 0..Len(sigs): 100, then
\* multiplied by (1 + profit_loss/100) for each signal in that order.
CurveOf(sigs) ==
    LET p == AnchorOrder(sigs)
        factor(m) == Rat(100 * sigs[p[m]].profit_loss[1].d + sigs[p[m]].profit_loss[1].n,
                         100 * sigs[p[m]].profit_loss[1].d)
        equity[m \in 0..Len(sigs)] ==
            IF m = 0 THEN Whole(100) ELSE Times(equity[m - 1], factor(m))
    IN  equity

\* The running peak at point m of a curve, and the decline from it in
\* percent.
PeakAt(curve, m) ==
    CHOOSE e \in {curve[a] : a \in 0..m} : \A a \in 0..m : ~Less(e, curve[a])

DeclineAt(curve, m) ==
    Over(Times(Minus(PeakAt(curve, m), curve[m]), Whole(100)), PeakAt(curve, m))

NonDecreasingCurve(curve) ==
    \A m \in DOMAIN curve : m > 0 => ~Less(curve[m], curve[m - 1])

\* C17: max_drawdown is computed over the equity curve that starts at 100
\* and multiplies by (1 + profit_loss/100) for each signal in non-decreasing
\* anchor-timestamp order, ties in generation order: it is 0 whenever that
\* curve is non-decreasing, and otherwise the largest value over the curve
\* of (running peak - equity) / running peak * 100.
C17_MaxDrawdown ==
    result # None =>
        LET md == result[1].max_drawdown
            curve == CurveOf(signals)
        IN  /\ NonDecreasingCurve(curve) => md = Whole(0)
            /\ \A m \in DOMAIN curve : ~Less(md, DeclineAt(curve, m))
            /\ \E m \in DOMAIN curve : md = DeclineAt(curve, m)

\* The documented curve 100, 110, 90, 95: max_drawdown is
\* (110 - 90) / 110 * 100 = 200/11.
C17_Witness ==
    /\ result # None
    /\ Len(signals) = 3
    /\ CurveOf(signals)[1] = Whole(110)
    /\ CurveOf(signals)[2] = Whole(90)
    /\ CurveOf(signals)[3] = Whole(95)
    /\ result[1].max_drawdown = Rat(200, 11)

\* ------------------------------------------------ C18: per-strategy breakdown

\* The terminal signals carrying a strategy label.
WithStrategy(sigs, x) == SelectSeq(sigs, LAMBDA s : s.strategy = x)

StrategiesOf(sigs) == {sigs[n].strategy : n \in 1..Len(sigs)}

RECURSIVE CountOver(_, _)
CountOver(perf, S) ==
    IF S = {} THEN 0
    ELSE LET x == CHOOSE x \in S : TRUE
         IN  perf[x].count + CountOver(perf, S \ {x})

MaxTwiceBars == 3

TwiceInputs == {in \in Inputs : Len(in.market) <= MaxTwiceBars}

InitTwice ==
    /\ \E in \in TwiceInputs :
          /\ market = in.market
          /\ config = in.config
    /\ env \in Envs
    /\ earlier = None
    /\ fetched = <<>>
    /\ feed = <<>>
    /\ request = None
    /\ attempts = <<>>
    /\ pc = "start"
    /\ df = <<>>
    /\ i = 0
    /\ k = 0
    /\ signals = <<>>
    /\ result = None
    /\ error = ""
    /\ escaped = FALSE
    /\ db_rows = 0
    /\ df2 = <<>>
    /\ signals2 = <<>>
    /\ cut = 0

\* run_backtest is called again with the same arguments, the collaborators
\* yielding the same annotated series, at another time and with another
\* random stream.  What the first call returned is kept aside.
Rerun ==
    /\ pc = "done"
    /\ earlier = None
    /\ earlier' = Some([result |-> result, env |-> env])
    /\ env' \in Envs
    /\ pc' = "start"
    /\ df' = <<>>
    /\ i' = 0
    /\ k' = 0
    /\ signals' = <<>>
    /\ result' = None
    /\ error' = ""
    /\ escaped' = FALSE
    /\ db_rows' = 0
    /\ fetched' = <<>>
    /\ UNCHANGED <<market, config, df2, signals2, cut, feed, request, attempts>>

\* The steps of run_backtest when no collaborator fails.
NextTwice ==
    \/ Fetch
    \/ Annotate
    \/ Replay
    \/ SimulateSkip
    \/ Simulate
    \/ Stats
    \/ Rerun

SpecTwice == InitTwice /\ [][NextTwice]_vars

\* The exit fields of a signal.
ExitFields(s) ==
    [exit_price |-> s.exit_price, exit_time |-> s.exit_time,
     profit_loss |-> s.profit_loss, exit_reason |-> s.exit_reason]

\* The statistics of a result and the exit fields of its signals, in order.
Figures(r) ==
    [total_signals |-> r.total_signals,
     winning_signals |-> r.winning_signals,
     losing_signals |-> r.losing_signals,
     win_rate |-> r.win_rate,
     avg_profit |-> r.avg_profit,
     max_drawdown |-> r.max_drawdown,
     profit_factor |-> r.profit_factor,
     strategy_performance |-> r.strategy_performance,
     exits |-> [n \in 1..Len(r.signals) |-> ExitFields(r.signals[n])]]

\* C19: Determinism.  When run_backtest has run twice on the same annotated
\* series and configuration, whatever the wall clock and the random ids of
\* each run, either both runs returned None or both returned results with
\* identical statistics (total_signals, winning_signals, losing_signals,
\* win_rate, avg_profit, max_drawdown, profit_factor, per-strategy map) and
\* identical exit fields signal by signal.
C19_Deterministic ==
    (earlier # None /\ pc = "done") =>
        /\ (result = None) <=> (earlier[1].result = None)
        /\ result # None => Figures(result[1]) = Figures(earlier[1].result[1])

\* Two completed runs at different times with different ids, on a series
\* that yields two signals, one of them leaving at its first target.
C19_Witness ==
    /\ earlier # None
    /\ pc = "done"
    /\ result # None
    /\ earlier[1].result # None
    /\ env.now # earlier[1].env.now
    /\ Len(result[1].signals) >= 2
    /\ result[1].signals[1].id # earlier[1].result[1].signals[1].id
    /\ \E n \in 1..Len(result[1].signals) :
          result[1].signals[n].exit_reason = Some("Target 1")

\* ------------------------------------ filter_conflicting_signals on its own

\* Longest list of signals handed to filter_conflicting_signals.
MaxFilterSignals == 4

FilterSymbols == {"BTC/USDT", "ETH/USDT"}

\* The nth signal of a list: a candidate of create_signal for a symbol, a
\* direction and a second target factor (3.0 or 2.0), with its own id.
FilterSignal(n, symbol, signal_type, tp2_factor) ==
    [create_signal(symbol, signal_type,
                   IF signal_type = "LONG" THEN "MACD Bullish Crossover"
                   ELSE "MACD Bearish Crossover",
                   EntryShape.close, Options(FALSE, 0, 20, 15, tp2_factor))
        EXCEPT !.id = Some(<<env.seed, 0, n>>)]

\* The flag columns of the candles whose candidates are filtered: one per
\* strategy group that needs a single flag, in both directions.
FilterFlags ==
    {"macd_cross_up", "macd_cross_down", "bullish_harmonic", "bearish_harmonic",
     "bullish_price_action", "bearish_price_action", "golden_cross", "death_cross"}

\* The lists filtered: any list of up to MaxFilterSignals signals, and the
\* candidates generate_signals yields for a candle with any of the flags.
InitFilter ==
    /\ env = LaterEnv
    /\ \/ \E len \in 0..MaxFilterSignals :
             \E f \in [1..len -> FilterSymbols \X {"LONG", "SHORT"} \X {30, 20}] :
                signals = [n \in 1..len |->
                              FilterSignal(n, f[n][1], f[n][2], f[n][3])]
       \/ \E f \in SUBSET FilterFlags :
             signals = generate_signals(
                           Stamp(<<WithFlags(EntryShape, f)>>, MinuteGrid),
                           DefaultConfig)
    /\ pc = "filter"
    /\ market = <<>>
    /\ config = DefaultConfig
    /\ df = <<>>
    /\ i = 0
    /\ k = 0
    /\ result = None
    /\ error = ""
    /\ escaped = FALSE
    /\ db_rows = 0
    /\ df2 = <<>>
    /\ signals2 = <<>>
    /\ cut = 0
    /\ earlier = None
    /\ fetched = <<>>
    /\ feed = <<>>
    /\ request = None
    /\ attempts = <<>>

\* filtered_signals = filter_conflicting_signals(new_signals)
Filter ==
    /\ pc = "filter"
    /\ result' = Some(filter_conflicting_signals(signals))
    /\ pc' = "done"
    /\ UNCHANGED <<market, config, df, i, k, signals, error, escaped,
                   db_rows, df2, signals2, cut, env, earlier, fetched,
                   feed, request, attempts>>

NextFilter == Filter

SpecFilter == InitFilter /\ [][NextFilter]_vars

\* ------------------------------------------------ C20: conflict resolution

\* Both directions occur among the signals of one symbol.
Conflict(sigs) ==
    \E a, b \in 1..Len(sigs) :
        /\ sigs[a].symbol = sigs[b].symbol
        /\ sigs[a].signal_type = "LONG"
        /\ sigs[b].signal_type = "SHORT"

\* C20: filter_conflicting_signals returns a sub-collection of its input:
\* every output signal is an input signal, no input signal appears twice,
\* so the output is no longer than the input; and in the output no symbol
\* has both a LONG and a SHORT signal.
C20_FilterSubCollection ==
    (pc = "done" /\ result # None) =>
        LET out == result[1]
        IN  /\ \A n \in 1..Len(out) : \E m \in 1..Len(signals) : out[n] = signals[m]
            /\ \A a, b \in 1..Len(out) : out[a] = out[b] => a = b
            /\ Len(out) <= Len(signals)
            /\ ~Conflict(out)

\* A list with a conflict on one symbol and signals of another symbol has
\* been filtered to a shorter list.
C20_Witness ==
    /\ pc = "done"
    /\ result # None
    /\ Conflict(signals)
    /\ {signals[n].symbol : n \in 1..Len(signals)} = FilterSymbols
    /\ Len(result[1]) < Len(signals)
    /\ Len(result[1]) >= 2

\* ------------------------------------------- C21: exit fields written once

\* The four exit fields of a signal are all None, or all set.
ExitNull(s) ==
    /\ s.exit_price = None /\ s.exit_time = None
    /\ s.profit_loss = None /\ s.exit_reason = None

ExitSet(s) ==
    /\ s.exit_price # None /\ s.exit_time # None
    /\ s.profit_loss # None /\ s.exit_reason # None

\* C21: Terminal signals are never re-evaluated.  In every step of a run
\* that does not abort it, each collected signal stays collected at its
\* place; its exit fields are afterwards all None or all set (so they go
\* from all-null to all-set in one step), and once they are set no step,
\* whether the simulation of another signal or the statistics, changes
\* them.
C21_ExitWrittenOnce ==
    [][ error' = "" =>
          /\ Len(signals') >= Len(signals)
          /\ \A n \in 1..Len(signals') :
                ExitNull(signals'[n]) \/ ExitSet(signals'[n])
          /\ \A n \in 1..Len(signals) :
                ~ExitNull(signals[n]) =>
                    ExitFields(signals'[n]) = ExitFields(signals[n]) ]_vars

\* The statistics have been computed over two signals: the first was
\* marked to market at the end of the data, the second, simulated after
\* it, left at its stop.
C21_Witness ==
    /\ pc = "done"
    /\ result # None
    /\ Len(signals) = 2
    /\ signals[1].exit_reason = Some("End of data")
    /\ signals[1].profit_loss # Some(Whole(0))
    /\ signals[2].exit_reason = Some("Stop Loss")

\* ---------------------------------------------------- C22: read-only inputs

\* C22: The run treats its inputs as read-only.  Once a frame has been
\* fetched, to the end of the run (annotation, replay, simulation,
\* statistics, or a failure) it holds the timestamps and prices the
\* exchange gave and no indicator or pattern column, those being added to
\* copies; and no step changes the caller's configuration.
C22_InputsReadOnly ==
    /\ [](fetched # <<>> => fetched = Fetched(market))
    /\ [][config' = config /\ (fetched # <<>> => fetched' = fetched)]_vars

\* A run has returned a result with signals in it: the frame it worked on
\* carries signal columns, the fetched frame does not.
C22_Witness ==
    /\ pc = "done"
    /\ result # None
    /\ result[1].total_signals > 0
    /\ \E n \in 1..Len(df) : df[n].flags # {}
    /\ \A n \in 1..Len(fetched) : fetched[n].flags = {}
    /\ Len(fetched) = Len(df)

\* ------------------------------------------------------ C23: level ordering

\* stop_loss < entry_price < target1 < target2 for LONG, the reverse for
\* SHORT.
LevelOrdering(s) ==
    IF s.signal_type = "LONG"
    THEN s.stop_loss < s.entry_price /\ s.entry_price < s.target1
            /\ s.target1 < s.target2
    ELSE s.stop_loss > s.entry_price /\ s.entry_price > s.target1
            /\ s.target1 > s.target2

\* C23: Signal level ordering.  Every signal create_signal produced for an
\* entry price > 0, under whatever configuration the run was given,
\* satisfies stop_loss < entry_price < target1 < target2 when LONG and
\* stop_loss > entry_price > target1 > target2 when SHORT.
C23_LevelOrdering ==
    \A s \in CollectedSignals : s.entry_price > 0 => LevelOrdering(s)

\* ------------------------------------------------ C24: the resolution rule

\* The signals of a list for one symbol, and those of one direction.
ForSymbol(sigs, sym) == SelectSeq(sigs, LAMBDA s : s.symbol = sym)

Directed(sigs, t) == SelectSeq(sigs, LAMBDA s : s.signal_type = t)

\* The place in group of its first signal of maximal risk_reward_ratio2.
FirstOfMaximalRatio(group) ==
    CHOOSE m \in 1..Len(group) :
        /\ \A j \in 1..Len(group) :
              group[j].risk_reward_ratio2 <= group[m].risk_reward_ratio2
        /\ \A j \in 1..(m - 1) :
              group[j].risk_reward_ratio2 < group[m].risk_reward_ratio2

\* C24: Conflict resolution rule.  For each symbol of the input: if it has
\* candidates of both directions and one direction has strictly more, the
\* output holds all candidates of that direction in input order and none
\* of the other; if the counts are equal it holds exactly one candidate,
\* the earliest in input order among those of maximal risk_reward_ratio2;
\* a symbol with a single direction keeps all its candidates in order.
C24_ResolutionRule ==
    (pc = "done" /\ result # None) =>
        \A sym \in {signals[n].symbol : n \in 1..Len(signals)} :
            LET group == ForSymbol(signals, sym)
                kept == ForSymbol(result[1], sym)
                longs == Directed(group, "LONG")
                shorts == Directed(group, "SHORT")
            IN  /\ (longs = <<>> \/ shorts = <<>>) => kept = group
                /\ (shorts # <<>> /\ Len(longs) > Len(shorts)) => kept = longs
                /\ (longs # <<>> /\ Len(shorts) > Len(longs)) => kept = shorts
                /\ (longs # <<>> /\ Len(longs) = Len(shorts)) =>
                        kept = <<group[FirstOfMaximalRatio(group)]>>

\* Four candidates of one symbol, two of each direction; the maximal ratio
\* is shared by the second candidate and a later one, and the second alone
\* has been kept.
C24_Witness ==
    /\ pc = "done"
    /\ result # None
    /\ Len(signals) = 4
    /\ Len(ForSymbol(signals, signals[1].symbol)) = 4
    /\ Len(Directed(signals, "LONG")) = 2
    /\ signals[1].risk_reward_ratio2 < signals[2].risk_reward_ratio2
    /\ \E n \in 3..4 : signals[n].risk_reward_ratio2 = signals[2].risk_reward_ratio2
    /\ result[1] = <<signals[2]>>

\* --------------------------------------- fetch_historical_data on its own

\* The exchanges of the world: the application's default and the fallbacks.
Exchanges == {"binance"} \cup {FallbackExchanges[n] : n \in DOMAIN FallbackExchanges}

\* The exchanges asked for: one outside the fallback list, its first member
\* and one in its middle.
RequestedExchanges == {"binance", "kraken", "bitfinex"}

\* fetch_historical_data is about to be called, for any requested exchange,
\* with or without fallback, whatever each exchange yields.
InitFetch ==
    /\ feed \in [Exchanges -> Yields]
    /\ \E ex \in RequestedExchanges, fb \in BOOLEAN :
          request = Some([exchange_id |-> ex, fallback |-> fb])
    /\ attempts = <<>>
    /\ pc = "fetch"
    /\ result = None
    /\ market = <<>>
    /\ config = DefaultConfig
    /\ df = <<>>
    /\ i = 0
    /\ k = 0
    /\ signals = <<>>
    /\ error = ""
    /\ escaped = FALSE
    /\ db_rows = 0
    /\ df2 = <<>>
    /\ signals2 = <<>>
    /\ cut = 0
    /\ env = LaterEnv
    /\ earlier = None
    /\ fetched = <<>>

\* The call on the requested exchange: its frame is returned; without one
\* (no exchange object, no candles, or an exception, all handled inside the
\* function) the fallback loop is entered if fallback is set, else None is
\* returned.
FetchPrimary ==
    /\ pc = "fetch"
    /\ LET exchange_id == request[1].exchange_id
       IN  /\ attempts' = <<[exchange_id |-> exchange_id,
                             fallback |-> request[1].fallback, depth |-> 1]>>
           /\ IF feed[exchange_id] = "data"
              THEN result' = FrameOf(exchange_id) /\ pc' = "done"
              ELSE IF request[1].fallback
                   THEN result' = None /\ pc' = "fallback"
                   ELSE result' = None /\ pc' = "done"
    /\ UNCHANGED <<market, config, df, i, k, signals, error, escaped, db_rows,
                   df2, signals2, cut, env, earlier, fetched, feed, request>>

\* One iteration of the loop of fetch_historical_data_from_fallback: the
\* next exchange of the list without the failed one is called with
\* fallback=False; a non-empty frame is returned, else the loop goes on.
FetchFallback ==
    /\ pc = "fallback"
    /\ LET fallback_exchanges == Remaining({request[1].exchange_id})
           n == Len(attempts)
       IN  /\ n <= Len(fallback_exchanges)
           /\ attempts' = Append(attempts,
                              [exchange_id |-> fallback_exchanges[n],
                               fallback |-> FALSE, depth |-> 2])
           /\ IF feed[fallback_exchanges[n]] = "data"
              THEN result' = FrameOf(fallback_exchanges[n]) /\ pc' = "done"
              ELSE result' = None /\ pc' = "fallback"
    /\ UNCHANGED <<market, config, df, i, k, signals, error, escaped, db_rows,
                   df2, signals2, cut, env, earlier, fetched, feed, request>>

\* The loop has run through the list: None is returned.
FetchExhausted ==
    /\ pc = "fallback"
    /\ Len(attempts) > Len(Remaining({request[1].exchange_id}))
    /\ result' = None
    /\ pc' = "done"
    /\ UNCHANGED <<market, config, df, i, k, signals, error, escaped, db_rows,
                   df2, signals2, cut, env, earlier, fetched, feed, request,
                   attempts>>

NextFetch ==
    \/ FetchPrimary
    \/ FetchFallback
    \/ FetchExhausted

SpecFetch == InitFetch /\ [][NextFetch]_vars

\* ------------------------------------------------- C25: fallback exchanges

\* The place of an exchange in the fallback list.
PlaceOf(exchange_id) ==
    CHOOSE n \in DOMAIN FallbackExchanges : FallbackExchanges[n] = exchange_id

\* The exchange of the nth call failed to give a frame.
Failed(n) == feed[attempts[n].exchange_id] # "data"

\* C25: Fallback retry is bounded and ordered.  The first call is on the
\* requested exchange with the caller's fallback flag; every later call is
\* a fallback call, one level below the first, with fallback disabled, on
\* an exchange of the fallback list other than the requested one, made only
\* with fallback enabled and after all earlier calls failed; the fallback
\* calls follow list order without skipping; no exchange is called twice.
\* The value returned is the frame of the last exchange called, which is
\* the first that gave one, or None when the requested exchange and (with
\* fallback enabled) every other exchange of the list have failed.
C25_FallbackBoundedOrdered ==
    LET requested == request[1].exchange_id
        calls == 1..Len(attempts)
    IN  /\ attempts # <<>> =>
              attempts[1] = [exchange_id |-> requested,
                             fallback |-> request[1].fallback, depth |-> 1]
        /\ \A n \in calls : n > 1 =>
              /\ attempts[n].fallback = FALSE
              /\ attempts[n].depth = 2
              /\ request[1].fallback
              /\ attempts[n].exchange_id # requested
              /\ \E m \in DOMAIN FallbackExchanges :
                    FallbackExchanges[m] = attempts[n].exchange_id
              /\ \A m \in 1..(PlaceOf(attempts[n].exchange_id) - 1) :
                    FallbackExchanges[m] # requested =>
                        \E a \in 2..(n - 1) :
                            /\ attempts[a].exchange_id = FallbackExchanges[m]
                            /\ \A b \in 2..(a - 1) :
                                  PlaceOf(attempts[b].exchange_id) < m
        /\ \A a, b \in calls : a < b => Failed(a)
        /\ \A a, b \in calls :
              attempts[a].exchange_id = attempts[b].exchange_id => a = b
        /\ pc = "done" =>
              IF result # None
              THEN /\ result = FrameOf(Last(attempts).exchange_id)
                   /\ ~Failed(Len(attempts))
              ELSE /\ \A n \in calls : Failed(n)
                   /\ ~request[1].fallback => Len(attempts) = 1
                   /\ request[1].fallback =>
                          \A m \in DOMAIN FallbackExchanges :
                              FallbackExchanges[m] # requested =>
                                  \E n \in calls :
                                      attempts[n].exchange_id = FallbackExchanges[m]

\* kraken, itself on the fallback list, was requested and failed; coinbase
\* and kucoin failed after it and the frame of bitfinex was returned.
C25_Witness ==
    /\ pc = "done"
    /\ request[1].exchange_id = "kraken"
    /\ Len(attempts) = 4
    /\ feed["kraken"] = "error"
    /\ feed["coinbase"] = "empty"
    /\ result = FrameOf("bitfinex")

\* ------------------------------------------------ C26: the second target

\* The second target lies beyond the first.
TargetsOrdered(s) ==
    IF s.signal_type = "LONG" THEN s.target1 < s.target2
    ELSE s.target1 > s.target2

Gainers(sigs) == {n \in 1..Len(sigs) : sigs[n].profit_loss[1].n > 0}

NonGainers(sigs) == {n \in 1..Len(sigs) : NotPositive(sigs[n].profit_loss[1])}

\* C27: Outcome/label consistency.  Every collected signal with
\* entry_price > 0 that satisfies the level ordering has profit_loss < 0
\* if it exited with reason Stop Loss and profit_loss > 0 if it exited with
\* reason Target 1 or Target 2; and a result counts as winning exactly the
\* signals with profit_loss > 0 and as losing all the others, so the
\* former are counted as losing and the latter as winning.
C27_OutcomeMatchesLabel ==
    /\ \A s \in CollectedSignals :
          (s.entry_price > 0 /\ LevelOrdering(s)) =>
              /\ s.exit_reason = Some("Stop Loss") => s.profit_loss[1].n < 0
              /\ s.exit_reason \in {Some("Target 1"), Some("Target 2")} =>
                    s.profit_loss[1].n > 0
    /\ result # None =>
          /\ result[1].winning_signals = Cardinality(Gainers(result[1].signals))
          /\ result[1].losing_signals = Cardinality(NonGainers(result[1].signals))

\* A result over two signals that satisfy the level ordering: a LONG that
\* left at its first target, counted as winning, and a SHORT that left at
\* its stop, counted as losing.
C27_Witness ==
    /\ result # None
    /\ Len(signals) = 2
    /\ \A n \in 1..2 : LevelOrdering(signals[n]) /\ signals[n].entry_price > 0
    /\ signals[1].signal_type = "LONG"
    /\ signals[1].exit_reason = Some("Target 1")
    /\ signals[2].signal_type = "SHORT"
    /\ signals[2].exit_reason = Some("Stop Loss")
    /\ result[1].winning_signals = 1
    /\ result[1].losing_signals = 1

\* ------------------------------------------------------- C28: accounting

\* C28: Accounting invariant.  In every result winning_signals +
\* losing_signals = total_signals = the number of signals returned, the
\* per-strategy counts add up to total_signals, and within each strategy
\* win_count + loss_count = count.
C28_Accounting ==
    result # None =>
        LET r == result[1]
            perf == r.strategy_performance
        IN  /\ r.winning_signals + r.losing_signals = r.total_signals
            /\ r.total_signals = Len(r.signals)
            /\ CountOver(perf, DOMAIN perf) = r.total_signals
            /\ \A x \in DOMAIN perf :
                  perf[x].win_count + perf[x].loss_count = perf[x].count

\* ------------------------------------------------- C29: range of drawdown

\* C29: In every result max_drawdown is a number from 0 to 100 percent.
C29_DrawdownRange ==
    result # None =>
        /\ Finite(result[1].max_drawdown)
        /\ ~Less(result[1].max_drawdown, Whole(0))
        /\ ~Less(Whole(100), result[1].max_drawdown)

\* --------------------------------------------------- C30: the signal store

\* C30: A backtest run leaves the persisted signal store unchanged.  At no
\* point of a run, and so not at its end, has the replay through
\* generate_signals and create_signal added a row to the signals table.
C30_StoreUnchanged == db_rows = 0

=============================================================================
